---- MODULE Spec2Model ----
(***************************************************************************)
(* Model of the robit conversational action engine                         *)
(* (crates/robit/src/engine.rs, preflight.rs, policy.rs, utils.rs).        *)
(*                                                                         *)
(* The engine is single-threaded: every inbound text message and every     *)
(* protocol ApprovalDecision event is handled to completion, so each is    *)
(* one action of the model.  Handlers (validate / execute) are external    *)
(* collaborators; their results are drawn nondeterministically.            *)
(***************************************************************************)
EXTENDS Integers, Sequences, FiniteSets, TLC

\* ------------------------------------------------------------------------
\* Bounds of the model
\* ------------------------------------------------------------------------
MaxApprovalId == 3
\* Bounds of the store-level and of the call-trace specifications.
MaxStoreIds == 3
MaxTraceApprovals == 1
MaxTracePlans == 1
MaxPlanApprovals == 2
MaxPlans == 1
\* Bounds of the specification with several plans paused at once.
MaxFrameApprovals == 3
MaxFramePlans == 2
\* Bound of the specification of the conversation store: the largest
\* max_messages a store is created with.
MaxHistoryLimit == 3
\* Bound of the specification of config updates: the protocol messages
\* handled between them.
MaxConfigMessages == 1
\* Bound of the specification of the adapter loop: the messages recv
\* returns.
MaxAdapterMessages == 2
\* Bound of the specification of pending inputs.
MaxInputApprovals == 1
\* Bounds of the specification of the planners: the approval ids issued
\* and the plans started.
MaxPlannerApprovals == 1
MaxPlannerPlans == 1
\* Bounds of the specification of protocol events: the message ids in use
\* and the approval ids issued.
MaxMessageIds == 2
MaxEventApprovals == 1

Senders == {"alice", "bob"}
\* The senders who ask for actions and plans.
Requesters == {"alice"}

\* Option<T> is modelled as a set with at most one element.
None == {}
Some(v) == {v}
IsSome(o) == o # {}
Unwrap(o) == CHOOSE v \in o : TRUE

\* A value bound once and named in what follows (a `let` of the source).
With(v, F(_)) == F(v)

Last(s) == s[Len(s)]
Range(s) == {s[i] : i \in 1..Len(s)}

\* ------------------------------------------------------------------------
\* Paths: a path string is the sequence of its components
\* ------------------------------------------------------------------------
Home == <<"home">>

\* The directories and files that exist on disk.
ExistingPaths ==
    { <<"work">>, <<"work", "a">>, <<"etc">>, <<"etc", "x">>, <<"home">> }

\* expand_tilde: "~" or "~/rest" becomes $HOME/rest.
expand_tilde(input) ==
    IF input # <<>> /\ Head(input) = "~" THEN Home \o Tail(input) ELSE input

\* What the operating system resolves a path to: ".." steps to the parent.
RECURSIVE ResolveDots(_, _)
ResolveDots(p, acc) ==
    IF p = <<>> THEN acc
    ELSE IF Head(p) = ".."
         THEN ResolveDots(Tail(p),
                          IF acc = <<>> THEN <<>> ELSE SubSeq(acc, 1, Len(acc) - 1))
         ELSE ResolveDots(Tail(p), Append(acc, Head(p)))

canonicalize(p) == ResolveDots(p, <<>>)

path_exists(p) == canonicalize(p) \in ExistingPaths

\* clean_path: canonical form when the path exists, unchanged otherwise.
clean_path(p) == IF path_exists(p) THEN canonicalize(p) ELSE p

\* Path::starts_with compares whole components and does not interpret "..".
starts_with(p, root) ==
    /\ Len(root) <= Len(p)
    /\ SubSeq(p, 1, Len(root)) = root

is_under(p, root) == starts_with(p, root)

\* ------------------------------------------------------------------------
\* Policy
\* ------------------------------------------------------------------------
Policy ==
    [ allowed_roots        |-> << <<"work">>, <<"home">> >>,
      approval_risk_levels |-> <<"Medium", "High">> ]

\* Faulty variant of Policy::requires_approval: the risk levels of the policy
\* are not consulted.
policy_requires_approval_explicit(policy, risk, explicit) == explicit

\* Policy::requires_approval
policy_requires_approval(policy, risk, explicit) ==
    IF explicit THEN TRUE
    ELSE \E i \in 1..Len(policy.approval_risk_levels) :
            policy.approval_risk_levels[i] = risk

\* Policy::check_path_allowed: TRUE for Ok(()), FALSE for Err.
check_path_allowed(policy, path) ==
    LET canonical == IF path_exists(path) THEN canonicalize(path) ELSE path
        root_canonical(root) ==
            IF path_exists(root) THEN canonicalize(root) ELSE root
    IN  \E i \in 1..Len(policy.allowed_roots) :
            starts_with(canonical, root_canonical(policy.allowed_roots[i]))

\* ------------------------------------------------------------------------
\* Action registry: the specs of the registered handlers
\* ------------------------------------------------------------------------
Registry ==
    [ n \in {"fs.read_file", "fs.write_file", "shell.run"} |->
        CASE n = "fs.read_file" ->
                [ name |-> n, risk |-> "Low", requires_approval |-> FALSE,
                  capabilities |-> <<"filesystem">> ]
          [] n = "fs.write_file" ->
                [ name |-> n, risk |-> "Medium", requires_approval |-> TRUE,
                  capabilities |-> <<"filesystem">> ]
          [] n = "shell.run" ->
                [ name |-> n, risk |-> "High", requires_approval |-> TRUE,
                  capabilities |-> <<"shell", "process">> ] ]

\* ActionRegistry::get
registry_get(name) ==
    IF name \in DOMAIN Registry THEN Some(Registry[name]) ELSE None

\* ------------------------------------------------------------------------
\* Preflight
\* ------------------------------------------------------------------------
DefaultPathKeys ==
    << "path", "dir", "directory", "cwd", "file", "target", "src", "dst",
       "source", "destination" >>

DefaultPreflightConfig ==
    [ enabled |-> TRUE, strict |-> TRUE,
      allowed_capabilities |-> <<>>, denied_capabilities |-> <<>>,
      blocked_roots |-> <<>>, enforce_policy_roots |-> TRUE,
      path_keys |-> DefaultPathKeys ]

\* The preflight configurations an engine may be given.
PreflightConfigs ==
    { DefaultPreflightConfig,
      [DefaultPreflightConfig EXCEPT !.strict = FALSE,
                                     !.denied_capabilities = <<"Shell">>],
      [DefaultPreflightConfig EXCEPT !.enabled = FALSE],
      [DefaultPreflightConfig EXCEPT !.enforce_policy_roots = FALSE,
                                     !.blocked_roots = << <<"etc">> >>],
      [DefaultPreflightConfig EXCEPT !.denied_capabilities = <<"Shell">>] }

\* str::to_lowercase / eq_ignore_ascii_case on the strings that occur.
to_lowercase(s) ==
    CASE s = "Path"  -> "path"
      [] s = "Shell" -> "shell"
      [] s = "System Status" -> "system status"
      [] s = "Assistant" -> "assistant"
      [] OTHER       -> s

\* str::trim on the strings that occur.
trim(s) ==
    CASE s \in { " ", "  " } -> ""
      [] s = " hello "       -> "hello"
      [] OTHER               -> s

\* collect_paths: params is a JSON object, modelled as a sequence of
\* <<key, string value>> members; the values under a path key are collected.
collect_paths(params, path_keys) ==
    LET is_path_key(key) ==
            \E i \in 1..Len(path_keys) :
                to_lowercase(path_keys[i]) = to_lowercase(key)
        hits == SelectSeq(params, LAMBDA member : is_path_key(member[1]))
    IN  [i \in 1..Len(hits) |-> hits[i][2]]

\* The reasons one collected path adds to the report.
PathReasons(config, policy, raw) ==
    LET normalized == clean_path(expand_tilde(raw))
        blockedIdx ==
            SelectSeq([i \in 1..Len(config.blocked_roots) |-> i],
                      LAMBDA i : is_under(normalized,
                                   clean_path(expand_tilde(config.blocked_roots[i]))))
        blocked == [i \in 1..Len(blockedIdx) |-> "path blocked by policy"]
        roots ==
            IF config.enforce_policy_roots /\ ~check_path_allowed(policy, normalized)
            THEN <<"path not allowed">> ELSE <<>>
    IN  blocked \o roots

RECURSIVE AllPathReasons(_, _, _)
AllPathReasons(config, policy, paths) ==
    IF paths = <<>> THEN <<>>
    ELSE PathReasons(config, policy, Head(paths))
            \o AllPathReasons(config, policy, Tail(paths))

\* The reasons one capability of the spec adds to the report.
CapReasons(config, cap) ==
    LET lower(caps) == {to_lowercase(caps[i]) : i \in 1..Len(caps)}
        allowed_set == lower(config.allowed_capabilities)
        denied_set == lower(config.denied_capabilities)
        cap_norm == to_lowercase(cap)
    IN  (IF cap_norm \in denied_set THEN <<"capability denied">> ELSE <<>>)
        \o (IF allowed_set # {} /\ cap_norm \notin allowed_set
            THEN <<"capability not allowed">> ELSE <<>>)

RECURSIVE AllCapReasons(_, _)
AllCapReasons(config, caps) ==
    IF caps = <<>> THEN <<>>
    ELSE CapReasons(config, Head(caps)) \o AllCapReasons(config, Tail(caps))

\* PreflightEngine::check: the report (the check itself never returns Err).
preflight_check(config, spec, params, policy) ==
    IF ~config.enabled
    THEN [ action |-> spec.name, allowed |-> TRUE, reasons |-> <<>>, paths |-> <<>> ]
    ELSE LET paths == collect_paths(params, config.path_keys)
             reasons == AllCapReasons(config, spec.capabilities)
                            \o AllPathReasons(config, policy, paths)
         IN  [ action |-> spec.name, allowed |-> (reasons = <<>>),
               reasons |-> reasons,
               paths |-> [i \in 1..Len(paths) |-> clean_path(expand_tilde(paths[i]))] ]

\* ------------------------------------------------------------------------
\* Maps (HashMap) as functions
\* ------------------------------------------------------------------------
EmptyMap == [k \in {} |-> 0]
MapInsert(m, k, v) == [x \in (DOMAIN m) \cup {k} |-> IF x = k THEN v ELSE m[x]]
\* Faulty variant of MapRemove: the entry stays in the map.
MapRemove_keeps(m, k) == m
MapRemove(m, k) == [x \in (DOMAIN m) \ {k} |-> m[x]]
MapGet(m, k) == IF k \in DOMAIN m THEN Some(m[k]) ELSE None

\* ------------------------------------------------------------------------
\* RoomConfig
\* ------------------------------------------------------------------------
DefaultRoomConfig ==
    [ risk_policy |-> None, action_allowlist |-> None,
      action_denylist |-> None, dry_run_default |-> None ]

\* RoomConfig::allows_action
allows_action(room_cfg, name) ==
    IF IsSome(room_cfg.action_denylist) /\ name \in Unwrap(room_cfg.action_denylist)
    THEN FALSE
    ELSE IF IsSome(room_cfg.action_allowlist)
         THEN name \in Unwrap(room_cfg.action_allowlist)
         ELSE TRUE

\* Faulty variant of requires_approval: no action needs approval.
requires_approval_never(spec, room_cfg) == FALSE

\* Engine::requires_approval
requires_approval(spec, room_cfg) ==
    IF spec.requires_approval THEN TRUE
    ELSE IF IsSome(room_cfg.risk_policy)
         THEN LET policy == Unwrap(room_cfg.risk_policy)
              IN  IF policy.low_auto_execute /\ spec.risk = "Low" THEN FALSE
                  ELSE \E i \in 1..Len(policy.approval_for) :
                          policy.approval_for[i] = spec.risk
         ELSE policy_requires_approval(Policy, spec.risk, spec.requires_approval)

\* ------------------------------------------------------------------------
\* ApprovalStore
\* ------------------------------------------------------------------------
ApprovalStore_new ==
    [ next_id |-> 1, pending |-> EmptyMap, latest_by_sender |-> EmptyMap ]

\* Faulty variant of ApprId: the counter is not part of the id.
ApprId_fixed(n) == "appr-" \o ToString(1)

\* format!("appr-{}", n)
ApprId(n) == "appr-" \o ToString(n)

\* Faulty variant of create: the sender's latest id is recorded but the
\* PendingAction is not inserted.
create_detached(store, sender, request, spec, config, plan) ==
    LET id == ApprId(store.next_id)
    IN  [ store |->
            [ next_id |-> store.next_id + 1,
              pending |-> store.pending,
              latest_by_sender |-> MapInsert(store.latest_by_sender, sender, id) ],
          id |-> id ]

\* ApprovalStore::create: the new store and the id it returns.
create(store, sender, request, spec, config, plan) ==
    LET id == ApprId(store.next_id)
    IN  [ store |->
            [ next_id |-> store.next_id + 1,
              pending |-> MapInsert(store.pending, id,
                            [ request |-> request, spec |-> spec,
                              sender |-> sender, config |-> config,
                              plan |-> plan ]),
              latest_by_sender |-> MapInsert(store.latest_by_sender, sender, id) ],
          id |-> id ]

\* Faulty variant of take: the PendingAction is returned but not removed.
take_keeps(store, id) ==
    IF id \in DOMAIN store.pending
    THEN [ store |-> store, pending |-> Some(store.pending[id]) ]
    ELSE [ store |-> store, pending |-> None ]

\* ApprovalStore::take: the new store and Option<PendingAction>.
take(store, id) ==
    IF id \in DOMAIN store.pending
    THEN [ store |->
             [ store EXCEPT
                 !.pending = MapRemove(store.pending, id),
                 !.latest_by_sender =
                     MapRemove(store.latest_by_sender, store.pending[id].sender) ],
           pending |-> Some(store.pending[id]) ]
    ELSE [ store |-> store, pending |-> None ]

\* ApprovalStore::latest_for_sender
latest_for_sender(store, sender) == MapGet(store.latest_by_sender, sender)

\* ------------------------------------------------------------------------
\* ConfigStore
\* ------------------------------------------------------------------------
\* RoomConfig::apply_override
apply_override(base, other) ==
    [ risk_policy      |-> IF IsSome(other.risk_policy)
                           THEN other.risk_policy ELSE base.risk_policy,
      action_allowlist |-> IF IsSome(other.action_allowlist)
                           THEN other.action_allowlist ELSE base.action_allowlist,
      action_denylist  |-> IF IsSome(other.action_denylist)
                           THEN other.action_denylist ELSE base.action_denylist,
      dry_run_default  |-> IF IsSome(other.dry_run_default)
                           THEN other.dry_run_default ELSE base.dry_run_default ]

\* Faulty variant of merge_config: a present list takes the place of the
\* list of the base.
merge_config_overwrites(base, new_config) ==
    apply_override(base, new_config)

\* ConfigStore::merge_config; a list is Option<HashSet<String>>.
merge_config(base, new_config) ==
    LET extended(old, new) ==
            IF IsSome(new)
            THEN Some((IF IsSome(old) THEN Unwrap(old) ELSE {}) \cup Unwrap(new))
            ELSE old
    IN  [ risk_policy      |-> IF IsSome(new_config.risk_policy)
                               THEN new_config.risk_policy ELSE base.risk_policy,
          action_allowlist |-> extended(base.action_allowlist,
                                        new_config.action_allowlist),
          action_denylist  |-> extended(base.action_denylist,
                                        new_config.action_denylist),
          dry_run_default  |-> IF IsSome(new_config.dry_run_default)
                               THEN new_config.dry_run_default
                               ELSE base.dry_run_default ]

\* ConfigStore::default
ConfigStore_default ==
    [ global |-> DefaultRoomConfig, workspaces |-> EmptyMap, rooms |-> EmptyMap ]

\* Faulty variant of apply_to_target: every update is merged.
apply_to_target_merged(map, key, new_config, mode) ==
    MapInsert(map, key,
              merge_config(IF key \in DOMAIN map THEN map[key]
                           ELSE DefaultRoomConfig, new_config))

\* ConfigStore::apply_to_target
apply_to_target(map, key, new_config, mode) ==
    IF mode = "replace" THEN MapInsert(map, key, new_config)
    ELSE MapInsert(map, key,
                   merge_config(IF key \in DOMAIN map THEN map[key]
                                ELSE DefaultRoomConfig, new_config))

\* ConfigStore::apply for a ConfigUpdatePayload
ConfigStore_apply(store, payload) ==
    LET mode == IF IsSome(payload.mode) THEN Unwrap(payload.mode) ELSE "merge"
        new_config ==
            [ risk_policy |->
                  IF IsSome(payload.risk_policy)
                  THEN LET policy == Unwrap(payload.risk_policy)
                       IN  Some([ low_auto_execute |->
                                      IF IsSome(policy.low_auto_execute)
                                      THEN Unwrap(policy.low_auto_execute) ELSE TRUE,
                                  approval_for |->
                                      IF IsSome(policy.approval_for)
                                      THEN Unwrap(policy.approval_for)
                                      ELSE << "Medium", "High" >> ])
                  ELSE None,
              action_allowlist |->
                  IF IsSome(payload.action_allowlist)
                  THEN Some(Range(Unwrap(payload.action_allowlist))) ELSE None,
              action_denylist |->
                  IF IsSome(payload.action_denylist)
                  THEN Some(Range(Unwrap(payload.action_denylist))) ELSE None,
              dry_run_default |-> payload.dry_run_default ]
        to_global ==
            [ store EXCEPT !.global = IF mode = "replace" THEN new_config
                                      ELSE merge_config(@, new_config) ]
    IN  IF ~IsSome(payload.scope) THEN to_global
        ELSE LET ws == Unwrap(payload.scope).workspace_id
                 room == Unwrap(payload.scope).room_id
             IN  IF IsSome(ws) /\ IsSome(room)
                 THEN [ store EXCEPT !.rooms =
                          apply_to_target(@, << Unwrap(ws), Unwrap(room) >>,
                                          new_config, mode) ]
                 ELSE IF IsSome(ws)
                 THEN [ store EXCEPT !.workspaces =
                          apply_to_target(@, Unwrap(ws), new_config, mode) ]
                 ELSE to_global

\* Faulty variant of effective_for: the room's config is applied before the
\* workspace's.
effective_for_room_first(store, workspace_id, room_id) ==
    LET with_room == IF << workspace_id, room_id >> \in DOMAIN store.rooms
                     THEN apply_override(store.global,
                                         store.rooms[<< workspace_id, room_id >>])
                     ELSE store.global
    IN  IF workspace_id \in DOMAIN store.workspaces
        THEN apply_override(with_room, store.workspaces[workspace_id])
        ELSE with_room

\* ConfigStore::effective_for
effective_for(store, workspace_id, room_id) ==
    LET with_ws == IF workspace_id \in DOMAIN store.workspaces
                   THEN apply_override(store.global, store.workspaces[workspace_id])
                   ELSE store.global
    IN  IF << workspace_id, room_id >> \in DOMAIN store.rooms
        THEN apply_override(with_ws, store.rooms[<< workspace_id, room_id >>])
        ELSE with_ws

\* ------------------------------------------------------------------------
\* RoomScope
\* ------------------------------------------------------------------------
RoomScope_default == [ enforced |-> FALSE, allowed |-> {} ]

\* Faulty variant of RoomScope::update: the allowed set is never cleared.
RoomScope_update_keeps(room_scope, payload) ==
    LET pairs_of(ws) == { << ws.workspace_id, ws.rooms[j] >> : j \in 1..Len(ws.rooms) }
        added == UNION { pairs_of(payload.workspaces[i]) :
                         i \in 1..Len(payload.workspaces) }
    IN  [ enforced |-> TRUE, allowed |-> room_scope.allowed \cup added ]

\* RoomScope::update for a RoomScopePayload; workspaces is a sequence of
\* [workspace_id, rooms], rooms a sequence of room ids.
RoomScope_update(room_scope, payload) ==
    LET mode == IF IsSome(payload.mode) THEN Unwrap(payload.mode) ELSE "replace"
        kept == IF mode = "replace" THEN {} ELSE room_scope.allowed
        pairs_of(ws) == { << ws.workspace_id, ws.rooms[j] >> : j \in 1..Len(ws.rooms) }
        added == UNION { pairs_of(payload.workspaces[i]) :
                         i \in 1..Len(payload.workspaces) }
    IN  [ enforced |-> TRUE, allowed |-> kept \cup added ]

\* RoomScope::allows without the membership test.
allows_every_room(room_scope, workspace_id, room_id) ==
    IF ~room_scope.enforced THEN TRUE
    ELSE room_scope.allowed = room_scope.allowed

\* RoomScope::allows
allows(room_scope, workspace_id, room_id) ==
    IF ~room_scope.enforced THEN TRUE
    ELSE << workspace_id, room_id >> \in room_scope.allowed

\* ------------------------------------------------------------------------
\* ConversationStore
\* ------------------------------------------------------------------------
\* The max_messages Engine::new passes to ConversationStore::new.
HistoryLimit == 50

\* ConversationStore::new
ConversationStore_new(max_messages) ==
    [ max_messages |-> IF max_messages < 2 THEN 2 ELSE max_messages,
      history |-> EmptyMap ]

\* The drain taken from the back: the first max_messages entries stay.
trimmed_history_oldest(entry, max_messages) ==
    IF Len(entry) > max_messages
    THEN SubSeq(entry, 1, max_messages)
    ELSE entry

\* The drain at the end of record_exchange and record_context, and of
\* load_from_path.
trimmed_history(entry, max_messages) ==
    IF Len(entry) > max_messages
    THEN SubSeq(entry, Len(entry) - max_messages + 1, Len(entry))
    ELSE entry

\* The text of a reply; a reply drawn without a text carries a non-empty
\* one, which its kind stands for.
reply_text(r) == IF "text" \in DOMAIN r THEN r.text ELSE r.kind

\* ConversationStore::record_exchange
record_exchange(store, key, user_input, batch) ==
    LET old == IF key \in DOMAIN store.history THEN store.history[key] ELSE <<>>
        said == SelectSeq(batch, LAMBDA r : reply_text(r) # "")
        entry == (old \o << [ role |-> "User", content |-> user_input ] >>)
                 \o [ i \in 1..Len(said) |->
                        [ role |-> "Assistant", content |-> reply_text(said[i]) ] ]
    IN  [ store EXCEPT !.history =
            MapInsert(@, key, trimmed_history(entry, store.max_messages)) ]

\* Faulty variant of record_context: the content is kept untrimmed.
record_context_raw(store, key, role, content) ==
    IF content = "" THEN store
    ELSE LET old == IF key \in DOMAIN store.history THEN store.history[key] ELSE <<>>
             entry == Append(old, [ role |-> role, content |-> content ])
         IN  [ store EXCEPT !.history =
                 MapInsert(@, key, trimmed_history(entry, store.max_messages)) ]

\* ConversationStore::record_context
record_context(store, key, role, content) ==
    IF trim(content) = "" THEN store
    ELSE LET old == IF key \in DOMAIN store.history THEN store.history[key] ELSE <<>>
             entry == Append(old, [ role |-> role, content |-> trim(content) ])
         IN  [ store EXCEPT !.history =
                 MapInsert(@, key, trimmed_history(entry, store.max_messages)) ]

\* The orders in which the keys of a map can be visited.
KeyOrders(m) ==
    { order \in [ 1..Cardinality(DOMAIN m) -> DOMAIN m ] :
        \A i, j \in 1..Cardinality(DOMAIN m) : i # j => order[i] # order[j] }

\* ConversationStore::save_to_path: the PersistedStore files it can write,
\* one for each iteration order of the history map.
save_to_path(store) ==
    { [ max_messages |-> store.max_messages,
        conversations |->
            [ i \in 1..Len(order) |->
                [ workspace_id |-> order[i][1], room_id |-> order[i][2],
                  messages |-> store.history[order[i]] ] ] ] :
      order \in KeyOrders(store.history) }

\* ConversationStore::load_from_path for a file that exists and parses.
RECURSIVE load_conversations(_, _, _)
load_conversations(history, list, max_messages) ==
    IF list = <<>> THEN history
    ELSE load_conversations(
             MapInsert(history, << Head(list).workspace_id, Head(list).room_id >>,
                       trimmed_history(Head(list).messages, max_messages)),
             Tail(list), max_messages)

\* load_from_path reading only the first conversation of the file.
load_from_path_first(store, file) ==
    [ store EXCEPT !.history =
        load_conversations(EmptyMap,
                           SubSeq(file.conversations, 1,
                                  IF file.conversations = <<>> THEN 0 ELSE 1),
                           store.max_messages) ]

load_from_path(store, file) ==
    [ store EXCEPT !.history =
        load_conversations(EmptyMap, file.conversations, store.max_messages) ]

\* ------------------------------------------------------------------------
\* Engine state
\* ------------------------------------------------------------------------
VARIABLES
    approvals,      \* Engine.approvals : ApprovalStore
    plans,          \* Engine.plans : plan id -> PlanProgress
    next_plan_id,   \* Engine.next_plan_id
    preflight,      \* Engine.preflight : the PreflightConfig in force
    replies,        \* the batch returned for the last input
    calls,          \* preflight / validate / execute calls made for the last input
    input,          \* what the last input was and how it was routed
    denied,         \* the approval ids taken from the store by a deny decision
    execCount,      \* approval id -> number of execute calls for that pending action
    planSteps,      \* plan id -> the steps the plan was created with
    planRan,        \* plan id -> the steps handed to execute, in call order
    issued,         \* the ids ApprovalStore::create returned, in order (SpecStore)
    pending_inputs, \* Engine.pending_inputs : conversation key -> PendingInput
    seen_messages,  \* Engine.seen_messages : the message ids already processed
    scope,          \* Engine.scope : RoomScope
    config_store,   \* Engine.config_store : ConfigStore
    conversations,  \* Engine.conversations : ConversationStore
    adapter         \* the run_with_adapter loop and its Adapter: position, replies to send, log

vars == << approvals, plans, next_plan_id, preflight, replies, calls, input,
          denied, execCount, planSteps, planRan, issued, pending_inputs,
          seen_messages, scope, config_store, conversations, adapter >>

\* format!("plan-{id}")
PlanId(n) == "plan-" \o ToString(n)

\* ------------------------------------------------------------------------
\* Replies (OutboundMessage: metadata.kind and metadata.data)
\* ------------------------------------------------------------------------
NoData == [ approval_id |-> "", plan_id |-> "", step |-> 0, action |-> "" ]

\* Engine::reply
reply(kind, data) ==
    [ kind |-> kind, approval_id |-> data.approval_id, plan_id |-> data.plan_id,
      step |-> data.step, action |-> data.action ]

\* Engine::reply_with_outcome
reply_with_outcome(spec) ==
    [ kind |-> "action_result", approval_id |-> "", plan_id |-> "",
      step |-> 0, action |-> spec.name ]

\* Engine::reply with the text kept.
reply_saying(kind, text) ==
    [ kind |-> kind, approval_id |-> "", plan_id |-> "", step |-> 0,
      action |-> "", text |-> text ]

HasKind(batch, kind) == \E i \in 1..Len(batch) : batch[i].kind = kind

\* filter_plan_result_replies
filter_plan_result_replies(batch) ==
    LET is_summary(r) == r.kind = "plan_completed" \/ r.kind = "plan_stopped"
        has_summary == \E i \in 1..Len(batch) : is_summary(batch[i])
        summaries == SelectSeq(batch, is_summary)
        keep == SelectSeq(batch, LAMBDA r : ~is_summary(r) /\ r.kind = "approval_request")
    IN  IF ~has_summary THEN batch
        ELSE keep \o << Last(summaries) >>

\* ------------------------------------------------------------------------
\* Handler calls.  st is the engine state threaded through one input:
\*   approvals, plans, next_plan_id, pending_inputs, seen_messages,
\*   conversations, calls (the calls so far), n (number of validate calls so
\*   far) and orc (which handler call fails, if any).
\* ------------------------------------------------------------------------
NoFailure == [ at |-> 0, phase |-> "none" ]

Call(op, request, ok, appr, plan) ==
    [ op |-> op, name |-> request.name, params |-> request.params, ok |-> ok,
      appr |-> appr, plan |-> plan ]

Logged(st, call) == [st EXCEPT !.calls = Append(@, call)]

\* The path checks of the fs handlers' validate: the `path` parameter is
\* required and clean_path(expand_tilde(path)) must pass the policy.
fs_validate(request) ==
    LET given == SelectSeq(request.params, LAMBDA kv : kv[1] = "path")
    IN  /\ given # <<>>
        /\ check_path_allowed(Policy, clean_path(expand_tilde(given[1][2])))

\* ActionHandler::validate for the next call: the handler's own path checks,
\* and Ok unless the handler rejects for another reason.
validate_ok(st, request) ==
    /\ request.name \in { "fs.read_file", "fs.write_file" } => fs_validate(request)
    /\ ~(st.orc.at = st.n + 1 /\ st.orc.phase = "validate")

\* ActionHandler::execute for the call just validated.
execute_ok(st) == ~(st.orc.at = st.n /\ st.orc.phase = "execute")

\* Faulty variant of execute_action: the result of validate is ignored.
execute_action_unvalidated(st, request, spec, room_cfg, appr, plan) ==
    IF ~IsSome(registry_get(request.name))
    THEN [ st |-> st, replies |-> << reply("error", NoData) >> ]
    ELSE
      With(preflight_check(preflight, spec, request.params, Policy), LAMBDA report :
      With(Logged(st, Call("preflight", request, report.allowed, appr, plan)), LAMBDA st1 :
      IF ~report.allowed /\ preflight.strict
      THEN [ st |-> st1, replies |-> << reply("error", NoData) >> ]
      ELSE
        With(validate_ok(st1, request), LAMBDA valid :
        With([ Logged(st1, Call("validate", request, valid, appr, plan))
                 EXCEPT !.n = @ + 1 ], LAMBDA st2 :
        IF FALSE
        THEN [ st |-> st2, replies |-> << reply("error", NoData) >> ]
        ELSE
          With(execute_ok(st2), LAMBDA done :
          With(Logged(st2, Call("execute", request, done, appr, plan)), LAMBDA st3 :
          IF done
          THEN [ st |-> st3, replies |-> << reply_with_outcome(spec) >> ]
          ELSE [ st |-> st3, replies |-> << reply("error", NoData) >> ]))))))

\* Engine::execute_action; appr and plan label the calls with the approval
\* and the plan they are made for.
execute_action(st, request, spec, room_cfg, appr, plan) ==
    IF ~IsSome(registry_get(request.name))
    THEN [ st |-> st, replies |-> << reply("error", NoData) >> ]
    ELSE
      With(preflight_check(preflight, spec, request.params, Policy), LAMBDA report :
      With(Logged(st, Call("preflight", request, report.allowed, appr, plan)), LAMBDA st1 :
      IF ~report.allowed /\ preflight.strict
      THEN [ st |-> st1, replies |-> << reply("error", NoData) >> ]
      ELSE
        With(validate_ok(st1, request), LAMBDA valid :
        With([ Logged(st1, Call("validate", request, valid, appr, plan))
                 EXCEPT !.n = @ + 1 ], LAMBDA st2 :
        IF ~valid
        THEN [ st |-> st2, replies |-> << reply("error", NoData) >> ]
        ELSE
          With(execute_ok(st2), LAMBDA done :
          With(Logged(st2, Call("execute", request, done, appr, plan)), LAMBDA st3 :
          IF done
          THEN [ st |-> st3, replies |-> << reply_with_outcome(spec) >> ]
          ELSE [ st |-> st3, replies |-> << reply("error", NoData) >> ]))))))

\* Engine::start_plan_progress
start_plan_progress(st, plan_id, total_steps) ==
    IF plan_id \in DOMAIN st.plans THEN st
    ELSE [st EXCEPT !.plans =
            MapInsert(@, plan_id,
                [ id |-> plan_id, total_steps |-> total_steps, results |-> <<>> ])]

\* Engine::record_plan_result
record_plan_result(st, plan_id, action) ==
    IF plan_id \notin DOMAIN st.plans THEN st
    ELSE [st EXCEPT !.plans[plan_id].results = Append(@, action)]

\* Faulty variant of finish_plan: every plan entry is removed.
finish_plan_clears(st, plan_id, stopped_early) ==
    IF plan_id \notin DOMAIN st.plans
    THEN [ st |-> st, summary |-> None ]
    ELSE
      LET plan == st.plans[plan_id]
          st1 == [st EXCEPT !.plans = EmptyMap]
          status == IF stopped_early THEN "plan_stopped" ELSE "plan_completed"
      IN  IF plan.results = <<>>
          THEN [ st |-> st1, summary |-> None ]
          ELSE [ st |-> st1,
                 summary |-> Some(reply(status,
                     [ NoData EXCEPT !.plan_id = plan.id,
                                     !.step = Len(plan.results) ])) ]

\* Engine::finish_plan: the new state and Option<summary reply>.
finish_plan(st, plan_id, stopped_early) ==
    IF plan_id \notin DOMAIN st.plans
    THEN [ st |-> st, summary |-> None ]
    ELSE
      LET plan == st.plans[plan_id]
          st1 == [st EXCEPT !.plans = MapRemove(@, plan_id)]
          status == IF stopped_early THEN "plan_stopped" ELSE "plan_completed"
      IN  IF plan.results = <<>>
          THEN [ st |-> st1, summary |-> None ]
          ELSE [ st |-> st1,
                 summary |-> Some(reply(status,
                     [ NoData EXCEPT !.plan_id = plan.id,
                                     !.step = Len(plan.results) ])) ]

\* The while loop of Engine::execute_plan_steps, from steps[index] on
\* (index is 1-based).  Yields the state, the replies pushed, and the
\* awaiting_approval / stopped_early flags at loop exit.
RECURSIVE plan_loop(_, _, _, _, _, _, _, _, _)
plan_loop(st, sender, steps, index, room_cfg, auto_approve, plan_label, completed, total_steps) ==
    IF index > Len(steps)
    THEN [ st |-> st, replies |-> <<>>,
           awaiting_approval |-> FALSE, stopped_early |-> FALSE ]
    ELSE
      LET step == steps[index]
          step_no == completed + 1
          request == [ name |-> step.action, params |-> step.params ]
          break(s, r, awaiting, stopped) ==
              [ st |-> s, replies |-> r,
                awaiting_approval |-> awaiting, stopped_early |-> stopped ]
      IN
      IF ~IsSome(registry_get(request.name))
      THEN break(st, << reply("error", NoData) >>, FALSE, FALSE)
      ELSE
        With(Unwrap(registry_get(request.name)), LAMBDA spec :
        IF ~allows_action(room_cfg, spec.name)
        THEN break(st, << reply("error", NoData) >>, FALSE, FALSE)
        ELSE
          With(IF step.requires_approval = Some(TRUE) THEN TRUE
               ELSE requires_approval(spec, room_cfg), LAMBDA needs_approval :
          With(preflight_check(preflight, spec, request.params, Policy), LAMBDA report :
          With(Logged(st, Call("preflight", request, report.allowed, "", plan_label)), LAMBDA st1 :
          IF ~report.allowed /\ preflight.strict
          THEN break(st1, << reply("error", NoData) >>, FALSE, FALSE)
          ELSE
            With(validate_ok(st1, request), LAMBDA valid :
            With([ Logged(st1, Call("validate", request, valid, "", plan_label))
                     EXCEPT !.n = @ + 1 ], LAMBDA st2 :
            IF ~valid
            THEN break(st2, << reply("error", NoData) >>, FALSE, FALSE)
            ELSE
              IF needs_approval /\ ~auto_approve
              THEN
                With([ plan_id |-> plan_label,
                       remaining |-> SubSeq(steps, index + 1, Len(steps)),
                       auto_approve |-> FALSE,
                       completed_steps |-> completed,
                       total_steps |-> total_steps ], LAMBDA plan_ctx :
                With(create(st2.approvals, sender, request, spec, room_cfg,
                            Some(plan_ctx)), LAMBDA c :
                break([st2 EXCEPT !.approvals = c.store],
                      << reply("approval_request",
                            [ NoData EXCEPT !.approval_id = c.id,
                                            !.plan_id = plan_label,
                                            !.step = step_no ]) >>,
                      TRUE, FALSE)))
              ELSE
                With(execute_ok(st2), LAMBDA done :
                With(Logged(st2, Call("execute", request, done, "", plan_label)), LAMBDA st3 :
                IF done
                THEN
                  With(plan_loop(record_plan_result(st3, plan_label, spec.name),
                                 sender, steps, index + 1, room_cfg,
                                 auto_approve, plan_label, completed + 1,
                                 total_steps), LAMBDA rest :
                  [ rest EXCEPT !.replies = << reply_with_outcome(spec) >> \o @ ])
                ELSE break(st3, << reply("error", NoData) >>, FALSE, TRUE)))))))))

\* Faulty variant of execute_plan_steps: the loop starts at the second step.
execute_plan_steps_skips(st, sender, steps, room_cfg, auto_approve, plan_id, completed_steps, total_steps) ==
    With(IF IsSome(plan_id) THEN Unwrap(plan_id) ELSE "plan", LAMBDA plan_label :
    With(plan_loop(st, sender, steps, 2, room_cfg, auto_approve,
                   plan_label, completed_steps, total_steps), LAMBDA loop :
    With(IF ~loop.awaiting_approval /\ plan_label # ""
         THEN finish_plan(loop.st, plan_label, loop.stopped_early)
         ELSE [ st |-> loop.st, summary |-> None ], LAMBDA fin :
    With(IF IsSome(fin.summary)
         THEN Append(loop.replies, Unwrap(fin.summary))
         ELSE loop.replies, LAMBDA batch :
    [ st |-> fin.st,
      replies |-> IF plan_label # "" THEN filter_plan_result_replies(batch)
                  ELSE batch ]))))

\* Engine::execute_plan_steps; plan_id is the Option<String> every caller
\* passes as Some.
execute_plan_steps(st, sender, steps, room_cfg, auto_approve, plan_id, completed_steps, total_steps) ==
    With(IF IsSome(plan_id) THEN Unwrap(plan_id) ELSE "plan", LAMBDA plan_label :
    With(plan_loop(st, sender, steps, 1, room_cfg, auto_approve,
                   plan_label, completed_steps, total_steps), LAMBDA loop :
    With(IF ~loop.awaiting_approval /\ plan_label # ""
         THEN finish_plan(loop.st, plan_label, loop.stopped_early)
         ELSE [ st |-> loop.st, summary |-> None ], LAMBDA fin :
    With(IF IsSome(fin.summary)
         THEN Append(loop.replies, Unwrap(fin.summary))
         ELSE loop.replies, LAMBDA batch :
    [ st |-> fin.st,
      replies |-> IF plan_label # "" THEN filter_plan_result_replies(batch)
                  ELSE batch ]))))

\* Faulty variant of handle_plan_request: the steps are run a second time.
handle_plan_request_again(st, sender, steps, room_cfg) ==
    IF steps = <<>>
    THEN [ st |-> st, replies |-> << reply("error", NoData) >> ]
    ELSE
      LET plan_id == PlanId(st.next_plan_id)
          st1 == start_plan_progress([st EXCEPT !.next_plan_id = @ + 1],
                                     plan_id, Len(steps))
      IN  With(execute_plan_steps(st1, sender, steps, room_cfg, FALSE,
                                  Some(plan_id), 0, Len(steps)), LAMBDA once :
          With(execute_plan_steps(once.st, sender, steps, room_cfg, FALSE,
                                  Some(plan_id), 0, Len(steps)), LAMBDA again :
          [ st |-> again.st, replies |-> once.replies \o again.replies ]))

\* Engine::handle_plan_request
handle_plan_request(st, sender, steps, room_cfg) ==
    IF steps = <<>>
    THEN [ st |-> st, replies |-> << reply("error", NoData) >> ]
    ELSE
      LET plan_id == PlanId(st.next_plan_id)
          st1 == start_plan_progress([st EXCEPT !.next_plan_id = @ + 1],
                                     plan_id, Len(steps))
      IN  execute_plan_steps(st1, sender, steps, room_cfg, FALSE, Some(plan_id),
                             0, Len(steps))

\* Engine::handle_action_request
handle_action_request(st, sender, request, room_cfg) ==
    IF ~IsSome(registry_get(request.name))
    THEN [ st |-> st, replies |-> << reply("error", NoData) >> ]
    ELSE
      With(Unwrap(registry_get(request.name)), LAMBDA spec :
      IF ~allows_action(room_cfg, spec.name)
      THEN [ st |-> st, replies |-> << reply("error", NoData) >> ]
      ELSE
        With(requires_approval(spec, room_cfg), LAMBDA needs_approval :
        With(preflight_check(preflight, spec, request.params, Policy), LAMBDA report :
        With(Logged(st, Call("preflight", request, report.allowed, "", "")), LAMBDA st1 :
        IF ~report.allowed /\ preflight.strict
        THEN [ st |-> st1, replies |-> << reply("error", NoData) >> ]
        ELSE
          With(validate_ok(st1, request), LAMBDA valid :
          With([ Logged(st1, Call("validate", request, valid, "", ""))
                   EXCEPT !.n = @ + 1 ], LAMBDA st2 :
          IF ~valid
          THEN [ st |-> st2, replies |-> << reply("error", NoData) >> ]
          ELSE
            IF needs_approval
            THEN
              With(create(st2.approvals, sender, request, spec, room_cfg, None), LAMBDA c :
              [ st |-> [st2 EXCEPT !.approvals = c.store],
                replies |-> << reply("approval_request",
                                 [ NoData EXCEPT !.approval_id = c.id ]) >> ])
            ELSE execute_action(st2, request, spec, room_cfg, "", "")))))))

\* ------------------------------------------------------------------------
\* Approval commands.  A message text is [word, arg]: the text is `word`
\* when arg = "" and `word arg` otherwise (arg is an approval id).
\* ------------------------------------------------------------------------
lower_word(w) ==
    CASE w = "Deny"    -> "deny"
      [] w = "APPROVE" -> "approve"
      [] OTHER         -> w

\* is_affirmation ("zh:..." stand for the five Chinese affirmations)
is_affirmation(lower) ==
    lower \in { "yes", "y", "ok", "okay", "sure",
                "zh:haode", "zh:hao", "zh:keyi", "zh:xing", "zh:en" }

\* is_followup_reference: the text contains one of the reference phrases.
is_followup_reference(lower) ==
    lower \in { "do it", "do that", "that one" }

\* parse_approval_command: Option<(ApprovalDecision, Option<String>)>
parse_approval_command(text) ==
    LET lower == lower_word(text.word)
        bare == text.arg = ""
    IN  IF bare /\ lower \in { "yes", "y", "approve" }
        THEN Some([ decision |-> "Approve", id |-> None ])
        ELSE IF (bare /\ is_affirmation(lower)) \/ is_followup_reference(lower)
        THEN Some([ decision |-> "ApproveAll", id |-> None ])
        ELSE IF bare /\ lower \in { "approve-all", "approve all", "approve plan" }
        THEN Some([ decision |-> "ApproveAll", id |-> None ])
        ELSE IF bare /\ lower \in { "no", "n", "deny", "reject" }
        THEN Some([ decision |-> "Deny", id |-> None ])
        ELSE IF ~bare /\ lower = "approve"
        THEN Some([ decision |-> "Approve", id |-> Some(text.arg) ])
        ELSE IF ~bare /\ lower = "approve-all"
        THEN Some([ decision |-> "ApproveAll", id |-> Some(text.arg) ])
        ELSE IF ~bare /\ lower = "deny"
        THEN Some([ decision |-> "Deny", id |-> Some(text.arg) ])
        ELSE None

\* The `explicit` test at the head of Engine::handle_approval.
is_explicit(text) ==
    LET lower == lower_word(text.word)
    IN  lower \in { "approve", "deny", "approve-all", "approve all", "approve plan" }

NotHandled(st) ==
    [ handled |-> FALSE, st |-> st, replies |-> <<>>,
      decision |-> "", id |-> "", taken |-> FALSE ]

\* Engine::handle_approval.  handled = FALSE stands for the None result;
\* decision, id and taken report the decision parsed, the approval id it
\* resolved to and whether that id was taken from the store.
handle_approval(st, sender, text) ==
    With(parse_approval_command(text), LAMBDA cmd :
    With(latest_for_sender(st.approvals, sender), LAMBDA latest :
    IF ~is_explicit(text) /\ ~IsSome(latest) THEN NotHandled(st)
    ELSE IF ~IsSome(cmd) THEN NotHandled(st)
    ELSE
      With(Unwrap(cmd).decision, LAMBDA decision :
      With(Unwrap(cmd).id, LAMBDA id :
      IF ~IsSome(id) /\ ~IsSome(latest)
      THEN [ handled |-> TRUE, st |-> st, replies |-> << reply("info", NoData) >>,
             decision |-> decision, id |-> "", taken |-> FALSE ]
      ELSE
        With(IF IsSome(id) THEN Unwrap(id) ELSE Unwrap(latest), LAMBDA pending_id :
        With(take(st.approvals, pending_id), LAMBDA t :
        IF ~IsSome(t.pending)
        THEN [ handled |-> TRUE, st |-> st, replies |-> << reply("error", NoData) >>,
               decision |-> decision, id |-> pending_id, taken |-> FALSE ]
        ELSE
          LET pending == Unwrap(t.pending)
              result(s, r) ==
                  [ handled |-> TRUE, st |-> s, replies |-> r,
                    decision |-> decision, id |-> pending_id, taken |-> TRUE ]
          IN
          IF decision = "Deny"
          THEN result([st EXCEPT !.approvals = t.store],
                      << reply("cancelled", NoData) >>)
          ELSE
            With(IsSome(pending.plan), LAMBDA has_plan :
            With(IF decision = "ApproveAll" /\ has_plan
                 THEN Some([Unwrap(pending.plan) EXCEPT !.auto_approve = TRUE])
                 ELSE pending.plan, LAMBDA plan_ctx :
            With(IF has_plan THEN Unwrap(plan_ctx).plan_id ELSE "", LAMBDA plan_tag :
            With(execute_action([st EXCEPT !.approvals = t.store], pending.request,
                                pending.spec, pending.config, pending_id, plan_tag),
                 LAMBDA ex :
            With(HasKind(ex.replies, "action_result"), LAMBDA succeeded :
            With(IF has_plan /\ succeeded
                 THEN record_plan_result(ex.st, plan_tag, pending.spec.name)
                 ELSE ex.st, LAMBDA st2 :
            IF ~has_plan THEN result(st2, ex.replies)
            ELSE
              With(Unwrap(plan_ctx), LAMBDA plan :
              IF succeeded
              THEN
                With(execute_plan_steps(st2, sender, plan.remaining,
                                        pending.config, plan.auto_approve,
                                        Some(plan.plan_id), plan.completed_steps + 1,
                                        plan.total_steps), LAMBDA more :
                result(more.st,
                       filter_plan_result_replies(ex.replies \o more.replies)))
              ELSE
                With(finish_plan(st2, plan.plan_id, TRUE), LAMBDA fin :
                result(fin.st,
                       filter_plan_result_replies(
                           IF IsSome(fin.summary)
                           THEN Append(ex.replies, Unwrap(fin.summary))
                           ELSE ex.replies))))))))))))))))

\* Faulty variant of handle_approval_decision: a plain approve also sets
\* auto_approve.
handle_approval_decision_auto(st, payload) ==
    With(take(st.approvals, payload.approval_id), LAMBDA t :
    IF ~IsSome(t.pending)
    THEN [ st |-> st, replies |-> <<>>, taken |-> FALSE ]
    ELSE
      With(Unwrap(t.pending), LAMBDA pending :
      With([st EXCEPT !.approvals = t.store], LAMBDA st1 :
      IF payload.decision \in { "approve", "approve_all", "approve-all" }
      THEN
        With(IsSome(pending.plan), LAMBDA has_plan :
        With(IF has_plan
             THEN Some([Unwrap(pending.plan) EXCEPT !.auto_approve = TRUE])
             ELSE pending.plan, LAMBDA plan_ctx :
        With(IF has_plan THEN Unwrap(plan_ctx).plan_id ELSE "", LAMBDA plan_tag :
        With(execute_action(st1, pending.request, pending.spec,
                            pending.config, payload.approval_id, plan_tag),
             LAMBDA ex :
        IF has_plan /\ HasKind(ex.replies, "action_result")
        THEN
          With(Unwrap(plan_ctx), LAMBDA plan :
          With(execute_plan_steps(ex.st, payload.sender_id, plan.remaining,
                                  pending.config, plan.auto_approve,
                                  Some(plan.plan_id), plan.completed_steps + 1,
                                  plan.total_steps), LAMBDA more :
          [ st |-> more.st,
            replies |-> filter_plan_result_replies(ex.replies \o more.replies),
            taken |-> TRUE ]))
        ELSE [ st |-> ex.st,
               replies |-> IF has_plan THEN filter_plan_result_replies(ex.replies)
                           ELSE ex.replies,
               taken |-> TRUE ]))))
      ELSE IF payload.decision = "deny"
      THEN [ st |-> st1, replies |-> << reply("cancelled", NoData) >>, taken |-> TRUE ]
      ELSE [ st |-> st1, replies |-> <<>>, taken |-> TRUE ])))

\* Faulty variant of handle_approval_decision: the remaining steps run
\* whether or not the approved step succeeded.
handle_approval_decision_continues(st, payload) ==
    With(take(st.approvals, payload.approval_id), LAMBDA t :
    IF ~IsSome(t.pending)
    THEN [ st |-> st, replies |-> <<>>, taken |-> FALSE ]
    ELSE
      With(Unwrap(t.pending), LAMBDA pending :
      With([st EXCEPT !.approvals = t.store], LAMBDA st1 :
      IF payload.decision \in { "approve", "approve_all", "approve-all" }
      THEN
        With(IsSome(pending.plan), LAMBDA has_plan :
        With(IF payload.decision # "approve" /\ has_plan
             THEN Some([Unwrap(pending.plan) EXCEPT !.auto_approve = TRUE])
             ELSE pending.plan, LAMBDA plan_ctx :
        With(IF has_plan THEN Unwrap(plan_ctx).plan_id ELSE "", LAMBDA plan_tag :
        With(execute_action(st1, pending.request, pending.spec,
                            pending.config, payload.approval_id, plan_tag),
             LAMBDA ex :
        IF has_plan
        THEN
          With(Unwrap(plan_ctx), LAMBDA plan :
          With(execute_plan_steps(ex.st, payload.sender_id, plan.remaining,
                                  pending.config, plan.auto_approve,
                                  Some(plan.plan_id), plan.completed_steps + 1,
                                  plan.total_steps), LAMBDA more :
          [ st |-> more.st,
            replies |-> filter_plan_result_replies(ex.replies \o more.replies),
            taken |-> TRUE ]))
        ELSE [ st |-> ex.st,
               replies |-> IF has_plan THEN filter_plan_result_replies(ex.replies)
                           ELSE ex.replies,
               taken |-> TRUE ]))))
      ELSE IF payload.decision = "deny"
      THEN [ st |-> st1, replies |-> << reply("cancelled", NoData) >>, taken |-> TRUE ]
      ELSE [ st |-> st1, replies |-> <<>>, taken |-> TRUE ])))

\* Engine::handle_approval_decision (protocol ApprovalDecision event); the
\* replies are the Response events, which keep each reply's kind.
handle_approval_decision(st, payload) ==
    With(take(st.approvals, payload.approval_id), LAMBDA t :
    IF ~IsSome(t.pending)
    THEN [ st |-> st, replies |-> <<>>, taken |-> FALSE ]
    ELSE
      With(Unwrap(t.pending), LAMBDA pending :
      With([st EXCEPT !.approvals = t.store], LAMBDA st1 :
      IF payload.decision \in { "approve", "approve_all", "approve-all" }
      THEN
        With(IsSome(pending.plan), LAMBDA has_plan :
        With(IF payload.decision # "approve" /\ has_plan
             THEN Some([Unwrap(pending.plan) EXCEPT !.auto_approve = TRUE])
             ELSE pending.plan, LAMBDA plan_ctx :
        With(IF has_plan THEN Unwrap(plan_ctx).plan_id ELSE "", LAMBDA plan_tag :
        With(execute_action(st1, pending.request, pending.spec,
                            pending.config, payload.approval_id, plan_tag),
             LAMBDA ex :
        IF has_plan /\ HasKind(ex.replies, "action_result")
        THEN
          With(Unwrap(plan_ctx), LAMBDA plan :
          With(execute_plan_steps(ex.st, payload.sender_id, plan.remaining,
                                  pending.config, plan.auto_approve,
                                  Some(plan.plan_id), plan.completed_steps + 1,
                                  plan.total_steps), LAMBDA more :
          [ st |-> more.st,
            replies |-> filter_plan_result_replies(ex.replies \o more.replies),
            taken |-> TRUE ]))
        ELSE [ st |-> ex.st,
               replies |-> IF has_plan THEN filter_plan_result_replies(ex.replies)
                           ELSE ex.replies,
               taken |-> TRUE ]))))
      ELSE IF payload.decision = "deny"
      THEN [ st |-> st1, replies |-> << reply("cancelled", NoData) >>, taken |-> TRUE ]
      ELSE [ st |-> st1, replies |-> <<>>, taken |-> TRUE ])))

\* ------------------------------------------------------------------------
\* Inputs
\* ------------------------------------------------------------------------
Params(key, value) == << <<key, value>> >>

ReadInside    == [ name |-> "fs.read_file",  params |-> Params("path", <<"work", "a">>) ]
ReadOutside   == [ name |-> "fs.read_file",  params |-> Params("Path", <<"etc", "x">>) ]
ReadTilde     == [ name |-> "fs.read_file",  params |-> Params("path", <<"~", "notes">>) ]
WriteInside   == [ name |-> "fs.write_file", params |-> Params("path", <<"work", "new">>) ]
WriteOutside  == [ name |-> "fs.write_file", params |-> Params("path", <<"etc", "x">>) ]
WriteDotDot   == [ name |-> "fs.write_file", params |-> Params("path", <<"work", "..", "etc", "new">>) ]
ShellRun      == [ name |-> "shell.run",     params |-> Params("command", <<"uptime">>) ]
UnknownAction == [ name |-> "nope",          params |-> <<>> ]

\* The action requests a planner may produce.
Requests == { ReadInside, WriteInside, ReadOutside, UnknownAction }

\* PlanStep
Step(request, requires_approval_) ==
    [ action |-> request.name, params |-> request.params,
      requires_approval |-> requires_approval_ ]

\* The plans a planner may produce.
PlanTable ==
    { << Step(WriteInside, None), Step(ShellRun, Some(TRUE)), Step(ReadInside, None) >>,
      << Step(ReadInside, None), Step(ReadOutside, None), Step(WriteInside, None) >>,
      << Step(ReadInside, Some(TRUE)) >> }

\* Which handler call of an input fails: none, or the validate / execute of
\* the at-th action validated while the input is handled.
OraclesUpTo(k) ==
    { NoFailure } \cup [ at : 1..k, phase : { "validate", "execute" } ]

ApprovalIds == { ApprId(n) : n \in 1..MaxApprovalId }

\* Message texts: approval words, bare or followed by an approval id, and
\* a text that is no command.
ApprovalTexts ==
    [ word : { "approve", "approve-all", "deny", "yes", "ok", "no", "n", "reject" },
      arg : { "" } ]
    \cup [ word : { "approve", "approve-all", "deny" }, arg : ApprovalIds ]

PlainText == [ word |-> "hello", arg |-> "" ]

\* Planner decisions (AiDecision / PlannerResponse).
ChatDecision == [ type |-> "chat", request |-> UnknownAction, steps |-> <<>> ]

Decisions ==
    [ type : { "action" }, request : Requests, steps : { <<>> } ]
    \cup [ type : { "plan" }, request : { UnknownAction }, steps : { <<>> } ]
    \cup { ChatDecision }

\* ApprovalDecisionPayload
DecisionPayloads ==
    [ approval_id : ApprovalIds,
      decision : { "approve", "approve_all", "approve-all", "deny", "maybe" },
      sender_id : Senders ]

\* ------------------------------------------------------------------------
\* History kept for the properties
\* ------------------------------------------------------------------------
CreatedIds(store) == { ApprId(n) : n \in 1..(store.next_id - 1) }

ExecutesFor(log, id) ==
    Len(SelectSeq(log, LAMBDA c : c.op = "execute" /\ c.appr = id))

RanFor(log, plan_id) ==
    LET hits == SelectSeq(log, LAMBDA c : c.op = "execute" /\ c.plan = plan_id)
    IN  [ i \in 1..Len(hits) |-> [ action |-> hits[i].name, params |-> hits[i].params ] ]

Start(orc) ==
    [ approvals |-> approvals, plans |-> plans, next_plan_id |-> next_plan_id,
      pending_inputs |-> pending_inputs, seen_messages |-> seen_messages,
      conversations |-> conversations,
      calls |-> <<>>, n |-> 0, orc |-> orc ]

\* input: via (text message or protocol event), route (the path the input
\* took), taken (whether a decision took a pending action from the store),
\* id (the approval id taken), decision (the decision that took it),
\* executes (how many times handler.execute ran while it was handled) and
\* event (the InboundMessage, or the payload of a protocol Message event).
NoInput ==
    [ via |-> "none", route |-> "", decision |-> "", id |-> "", taken |-> FALSE,
      executes |-> 0, event |-> None, returns |-> <<>> ]

Executes(log) == Len(SelectSeq(log, LAMBDA c : c.op = "execute"))

\* What a specification keeps of the history: the handler calls and every
\* input (trace), the per-approval history (ids), the per-plan history
\* (plans), the conversation history (convo), the message or event payload
\* of the last input (msg).
KeepIds    == [ trace |-> FALSE, ids |-> TRUE,  plans |-> FALSE, convo |-> FALSE, msg |-> FALSE ]
KeepPlans  == [ trace |-> FALSE, ids |-> FALSE, plans |-> TRUE,  convo |-> FALSE, msg |-> FALSE ]
KeepTrace  == [ trace |-> TRUE,  ids |-> FALSE, plans |-> FALSE, convo |-> FALSE, msg |-> FALSE ]
KeepNone   == [ trace |-> FALSE, ids |-> FALSE, plans |-> FALSE, convo |-> FALSE, msg |-> FALSE ]
KeepInputs == [ trace |-> TRUE,  ids |-> FALSE, plans |-> FALSE, convo |-> FALSE, msg |-> TRUE ]
KeepEvents == [ trace |-> TRUE,  ids |-> FALSE, plans |-> FALSE, convo |-> TRUE,  msg |-> TRUE ]

\* Commit the outcome of one handled input: the engine state and the
\* history.  With keep.trace, `replies`, `input` and `calls` describe the
\* input just handled; without it the handler calls are not kept, and
\* `replies` and `input` describe the input only if it changed the engine's
\* stores.  An input that would take the approval or plan counter past its
\* bound is not taken.
Commit(st, batch, inp, newPlan, keep, maxApprovalId, maxPlanId) ==
    /\ st.approvals.next_id <= maxApprovalId + 1
    /\ st.next_plan_id <= maxPlanId + 1
    /\ approvals' = st.approvals
    /\ plans' = st.plans
    /\ next_plan_id' = st.next_plan_id
    /\ pending_inputs' = st.pending_inputs
    /\ seen_messages' = st.seen_messages
    /\ conversations' = IF keep.convo THEN st.conversations ELSE conversations
    /\ LET changed == \/ st.approvals # approvals
                       \/ st.plans # plans
                       \/ st.next_plan_id # next_plan_id
                       \/ st.pending_inputs # pending_inputs
                       \/ st.seen_messages # seen_messages
       IN  /\ replies' = IF keep.trace \/ changed THEN batch ELSE <<>>
           /\ input' = IF keep.trace \/ changed
                        THEN [ via |-> inp.via, route |-> inp.route,
                               decision |-> inp.decision, id |-> inp.id,
                               taken |-> inp.taken,
                               executes |-> Executes(st.calls),
                               event |-> IF keep.msg THEN inp.event ELSE None,
                               returns |-> <<>> ]
                        ELSE NoInput
    /\ calls' = IF keep.trace THEN st.calls ELSE <<>>
    /\ IF keep.ids
       THEN /\ denied' = IF inp.taken /\ inp.decision = "Deny"
                         THEN denied \cup { inp.id } ELSE denied
            /\ execCount' =
                  [ id \in CreatedIds(st.approvals) |->
                      (IF id \in DOMAIN execCount THEN execCount[id] ELSE 0)
                          + ExecutesFor(st.calls, id) ]
       ELSE UNCHANGED << denied, execCount >>
    /\ IF keep.plans
       THEN /\ planSteps' =
                  IF IsSome(newPlan)
                  THEN MapInsert(planSteps, PlanId(next_plan_id), Unwrap(newPlan))
                  ELSE planSteps
            /\ planRan' =
                  [ p \in (DOMAIN planSteps) \cup
                          (IF IsSome(newPlan) THEN { PlanId(next_plan_id) } ELSE {}) |->
                      (IF p \in DOMAIN planRan THEN planRan[p] ELSE <<>>)
                          \o RanFor(st.calls, p) ]
       ELSE UNCHANGED << planSteps, planRan >>
    /\ UNCHANGED << preflight, issued, scope, config_store, adapter >>

\* ------------------------------------------------------------------------
\* Actions
\* ------------------------------------------------------------------------
\* The text of a message as one string.
text_string(text) ==
    IF text.arg = "" THEN text.word ELSE text.word \o " " \o text.arg

\* ConversationStore::key_for and Engine::decorate_conversation_key; no
\* backend label is set.
conversation_key_for(msg) ==
    << IF IsSome(msg.workspace_id) THEN Unwrap(msg.workspace_id) ELSE "default",
       msg.channel >>

\* ActionContext.cwd
Cwd == << "work" >>

\* is_current_directory ("zh:..." stand for the two Chinese phrases)
is_current_directory(text) ==
    /\ text.arg = ""
    /\ lower_word(text.word) \in { ".", "current", "current dir", "current directory",
                                   "zh:dangqianmulu", "zh:dangqianwenjianjia" }

\* is_path_key
is_path_key(key) ==
    to_lowercase(key) \in { "path", "dir", "directory", "cwd", "folder" }

\* The parameter value a text is: a path text is the sequence of its
\* components, any other text a single component.
text_value(text) ==
    CASE text.word = "/work/a" -> << "work", "a" >>
      [] text.word = "/etc/x"  -> << "etc", "x" >>
      [] OTHER                 -> << text_string(text) >>

\* insert_param: the key's member is replaced, or added if absent.
insert_param(params, key, value) ==
    IF \E i \in 1..Len(params) : params[i][1] = key
    THEN [ i \in 1..Len(params) |->
             IF params[i][1] = key THEN << key, value >> ELSE params[i] ]
    ELSE Append(params, << key, value >>)

\* resolve_pending_input without the mapping of the current-directory
\* phrases to the cwd.
resolve_pending_input_raw(pending, text, cwd) ==
    IF text.word = "" THEN None
    ELSE
      LET value == text_value(text)
          path_keys == SelectSeq(pending.missing, is_path_key)
      IN  IF Len(pending.missing) = 1
          THEN Some([ name |-> pending.action,
                      params |-> insert_param(pending.params, pending.missing[1], value) ])
          ELSE IF path_keys # <<>>
          THEN Some([ name |-> pending.action,
                      params |-> insert_param(pending.params, path_keys[1], value) ])
          ELSE None

\* Engine::resolve_pending_input: Option<ActionRequest>
resolve_pending_input(pending, text, cwd) ==
    IF text.word = "" THEN None
    ELSE
      LET value == IF is_current_directory(text) THEN cwd ELSE text_value(text)
          path_keys == SelectSeq(pending.missing, is_path_key)
      IN  IF Len(pending.missing) = 1
          THEN Some([ name |-> pending.action,
                      params |-> insert_param(pending.params, pending.missing[1], value) ])
          ELSE IF path_keys # <<>>
          THEN Some([ name |-> pending.action,
                      params |-> insert_param(pending.params, path_keys[1], value) ])
          ELSE None

\* Engine::handle_message_with_config for a message that is no control
\* command; dec is what the planner answers if the text reaches it.  Yields
\* the state, the replies, the input record and the plan started, if any.
handle_message_in(st0, msg, room_cfg, dec) ==
    IF msg.text.word = ""
    THEN [ st |-> st0, replies |-> <<>>,
           inp |-> [ via |-> "text", route |-> "empty", decision |-> "",
                     id |-> "", taken |-> FALSE, event |-> Some(msg) ],
           newPlan |-> None ]
    ELSE
    With(conversation_key_for(msg), LAMBDA convo_key :
    With(handle_approval(st0, msg.sender, msg.text), LAMBDA a :
    LET inp(route) ==
            [ via |-> "text", route |-> route,
              decision |-> IF a.taken THEN a.decision ELSE "",
              id |-> IF a.taken THEN a.id ELSE "", taken |-> a.taken,
              event |-> Some(msg) ]
        out(r, route, newPlan) ==
            [ st |-> [ r.st EXCEPT !.conversations =
                         record_exchange(@, convo_key, text_string(msg.text),
                                         r.replies) ],
              replies |-> r.replies, inp |-> inp(route), newPlan |-> newPlan ]
    IN
    IF a.handled
    THEN out(a, "approval", None)
    ELSE
      With(MapGet(st0.pending_inputs, convo_key), LAMBDA pending :
      With([ st0 EXCEPT !.pending_inputs = MapRemove(@, convo_key) ], LAMBDA st1 :
      With(IF IsSome(pending)
           THEN resolve_pending_input(Unwrap(pending), msg.text, Cwd)
           ELSE None, LAMBDA filled :
      IF IsSome(filled)
      THEN out(handle_action_request(st1, msg.sender, Unwrap(filled), room_cfg),
               "fill", None)
      ELSE CASE dec.type = "action" ->
                  out(handle_action_request(st1, msg.sender, dec.request, room_cfg),
                      "action", None)
             [] dec.type = "plan" ->
                  out(handle_plan_request(st1, msg.sender, dec.steps, room_cfg),
                      "plan", IF dec.steps = <<>> THEN None ELSE Some(dec.steps))
             [] dec.type = "need_input" ->
                  out([ st |-> IF IsSome(dec.action) /\ dec.missing # <<>>
                               THEN [ st1 EXCEPT !.pending_inputs =
                                        MapInsert(@, convo_key,
                                            [ action |-> Unwrap(dec.action),
                                              params |-> dec.params,
                                              missing |-> dec.missing ]) ]
                               ELSE st1,
                        replies |-> << reply("need_input", NoData) >> ],
                      "need_input", None)
             [] dec.type = "unknown" ->
                  out([ st |-> st1,
                        replies |-> << reply_saying("chat",
                                         IF dec.message = "" THEN "not sure"
                                         ELSE dec.message) >> ],
                      "unknown", None)
             [] dec.type = "rule_unknown" ->
                  out([ st |-> st1, replies |-> << reply("unknown", NoData) >> ],
                      "rule_unknown", None)
             [] OTHER ->
                  out([ st |-> st1, replies |-> << reply("chat", NoData) >> ],
                      "chat", None))))))

\* ------------------------------------------------------------------------
\* Planning: the LLM planner, the heuristic plan and the rule planner
\* ------------------------------------------------------------------------
\* The message of the Unknown decision the LLM backend returns for a
\* response it cannot parse.
FormatInvalid == "AI response format invalid; please retry."

\* str::contains for the texts and the keywords of heuristic_plan_for.
contains(lower, keyword) ==
    keyword \in ( CASE lower = "system status" -> { "system status", "status" }
                    [] lower = "cpu network"   -> { "cpu", "network" }
                    [] lower = "disk"          -> { "disk" }
                    [] OTHER                   -> {} )

\* heuristic_plan_for
heuristic_plan_for(text) ==
    LET lower == to_lowercase(text)
        wants_status == contains(lower, "system status") \/ contains(lower, "status")
        shell(command) ==
            [ action |-> "shell.run", params |-> Params("command", << command >>),
              requires_approval |-> Some(TRUE) ]
        steps ==
            (IF wants_status \/ contains(lower, "cpu") \/ contains(lower, "load")
             THEN << shell("uptime") >> ELSE <<>>)
            \o (IF wants_status \/ contains(lower, "memory")
                THEN << shell("vm_stat") >> ELSE <<>>)
            \o (IF wants_status \/ contains(lower, "disk")
                THEN << shell("df -h") >> ELSE <<>>)
            \o (IF wants_status \/ contains(lower, "process")
                THEN << shell("ps aux | sort -nrk 3,3 | head -5") >> ELSE <<>>)
            \o (IF contains(lower, "network")
                THEN << shell("ifconfig") >> ELSE <<>>)
    IN  IF steps = <<>> THEN None ELSE Some(steps)

\* A call of a planner: ai_backend.plan_with_history with the input or with
\* the RETRY-prefixed input, or planner.plan.
PlannerCall(op, ok) ==
    [ op |-> op, name |-> "", params |-> <<>>, ok |-> ok, appr |-> "", plan |-> "" ]

\* Faulty variant of plan_decision: a format-invalid answer is retried
\* without trying the heuristic plan.
plan_decision_retries(text, ai) ==
    LET first_call == PlannerCall("plan_with_history", ai.first.ok)
        retry_call == PlannerCall("plan_with_history_retry", ai.retry.ok)
        rule_call  == PlannerCall("planner.plan", TRUE)
    IN  IF ~ai.backend
        THEN [ dec |-> ai.rule, calls |-> << rule_call >> ]
        ELSE IF ~ai.first.ok
        THEN [ dec |-> ai.rule, calls |-> << first_call, rule_call >> ]
        ELSE IF ai.first.decision.type # "unknown"
                \/ ai.first.decision.message # FormatInvalid
        THEN [ dec |-> ai.first.decision, calls |-> << first_call >> ]
        ELSE IF ai.retry.ok /\ ai.retry.decision.type # "unknown"
        THEN [ dec |-> ai.retry.decision, calls |-> << first_call, retry_call >> ]
        ELSE [ dec |-> ai.first.decision, calls |-> << first_call, retry_call >> ]

\* The planning part of Engine::handle_message_with_config: the decision
\* the message is handled with and the planner calls made.  ai holds
\* whether an LLM backend is set, what its first and its RETRY call
\* return, and what the rule planner returns.
plan_decision(text, ai) ==
    LET first_call == PlannerCall("plan_with_history", ai.first.ok)
        retry_call == PlannerCall("plan_with_history_retry", ai.retry.ok)
        rule_call  == PlannerCall("planner.plan", TRUE)
    IN  IF ~ai.backend
        THEN [ dec |-> ai.rule, calls |-> << rule_call >> ]
        ELSE IF ~ai.first.ok
        THEN [ dec |-> ai.rule, calls |-> << first_call, rule_call >> ]
        ELSE IF ai.first.decision.type # "unknown"
                \/ ai.first.decision.message # FormatInvalid
        THEN [ dec |-> ai.first.decision, calls |-> << first_call >> ]
        ELSE IF IsSome(heuristic_plan_for(text))
        THEN [ dec |-> [ type |-> "plan", request |-> UnknownAction,
                         steps |-> Unwrap(heuristic_plan_for(text)) ],
               calls |-> << first_call >> ]
        ELSE IF ai.retry.ok /\ ai.retry.decision.type # "unknown"
        THEN [ dec |-> ai.retry.decision, calls |-> << first_call, retry_call >> ]
        ELSE [ dec |-> ai.first.decision, calls |-> << first_call, retry_call >> ]

\* Engine::handle_message_with_config with its planners: the planner calls
\* are made only by a message that is neither empty, nor an approval
\* command, nor the answer that fills a pending input.
handle_message_planned(st0, msg, room_cfg, ai) ==
    With(plan_decision(text_string(msg.text), ai), LAMBDA p :
    With(handle_message_in(st0, msg, room_cfg, p.dec), LAMBDA r :
    IF r.inp.route \in { "empty", "approval", "fill" }
    THEN [ r EXCEPT !.inp.event = Some([ text |-> msg.text, ai |-> ai ]) ]
    ELSE [ r EXCEPT !.st.calls = p.calls \o @,
                    !.inp.event = Some([ text |-> msg.text, ai |-> ai ]) ]))

\* ------------------------------------------------------------------------
\* Engine::run_with_adapter.  adapter holds where the loop stands (pc: at
\* adapter.recv, at adapter.send, or returned), what it returned (result),
\* the replies of the current message still to send (outbox), the number
\* of messages received, and the log of the recv and send calls.
\* ------------------------------------------------------------------------
AdapterStart ==
    [ pc |-> "recv", result |-> "running", outbox |-> <<>>, received |-> 0,
      log |-> <<>> ]

\* Faulty variant of run_recv: the replies are queued last first.
run_recv_reversed(loop, result, batch) ==
    LET event == [ op |-> "recv", k |-> loop.received + 1, result |-> result,
                   batch |-> batch, ok |-> result.kind # "Err" ]
    IN  IF result.kind = "Err"
        THEN [ loop EXCEPT !.pc = "returned", !.result = "Err",
                           !.log = Append(@, event) ]
        ELSE IF result.kind = "None"
        THEN [ loop EXCEPT !.pc = "returned", !.result = "Ok",
                           !.log = Append(@, event) ]
        ELSE [ loop EXCEPT !.pc = IF batch = <<>> THEN "recv" ELSE "send",
                           !.outbox = [ i \in 1..Len(batch) |->
                                          batch[Len(batch) + 1 - i] ],
                           !.received = @ + 1,
                           !.log = Append(@, event) ]

\* The loop at `adapter.recv()?`: an error is returned, None ends the loop
\* with Ok, and the batch of a message (empty for a blank one, which is
\* skipped) is queued for sending.
run_recv(loop, result, batch) ==
    LET event == [ op |-> "recv", k |-> loop.received + 1, result |-> result,
                   batch |-> batch, ok |-> result.kind # "Err" ]
    IN  IF result.kind = "Err"
        THEN [ loop EXCEPT !.pc = "returned", !.result = "Err",
                           !.log = Append(@, event) ]
        ELSE IF result.kind = "None"
        THEN [ loop EXCEPT !.pc = "returned", !.result = "Ok",
                           !.log = Append(@, event) ]
        ELSE [ loop EXCEPT !.pc = IF batch = <<>> THEN "recv" ELSE "send",
                           !.outbox = batch,
                           !.received = @ + 1,
                           !.log = Append(@, event) ]

\* Faulty variant of run_send: a failed send is tried again.
run_send_retried(loop, ok) ==
    LET event == [ op |-> "send", k |-> loop.received, result |-> loop.outbox[1],
                   batch |-> <<>>, ok |-> ok ]
    IN  IF ok
        THEN [ loop EXCEPT !.pc = IF Len(loop.outbox) = 1 THEN "recv" ELSE "send",
                           !.outbox = Tail(@),
                           !.log = Append(@, event) ]
        ELSE [ loop EXCEPT !.log = Append(@, event) ]

\* The loop at `adapter.send(response)?`: the next reply is sent, and a
\* failed send is returned.
run_send(loop, ok) ==
    LET event == [ op |-> "send", k |-> loop.received, result |-> loop.outbox[1],
                   batch |-> <<>>, ok |-> ok ]
    IN  IF ok
        THEN [ loop EXCEPT !.pc = IF Len(loop.outbox) = 1 THEN "recv" ELSE "send",
                           !.outbox = Tail(@),
                           !.log = Append(@, event) ]
        ELSE [ loop EXCEPT !.pc = "returned", !.result = "Err",
                           !.log = Append(@, event) ]

\* The InboundMessage an adapter delivers.
AdapterMessage(sender, text) ==
    [ text |-> text, sender |-> sender, channel |-> "cli", workspace_id |-> None ]

\* Engine::handle_message: an inbound text message with the default room
\* config.
handle_message_with_config(sender, text, dec, orc) ==
    handle_message_in(Start(orc), AdapterMessage(sender, text),
                      DefaultRoomConfig, dec)

\* The handler calls an input makes when no call fails: the failing call of
\* an input is drawn among these.
CallsOfMessage(sender, text, dec) ==
    handle_message_with_config(sender, text, dec, NoFailure).st.n

handle_message(sender, text, dec, orc) ==
    \E r \in { handle_message_with_config(sender, text, dec, orc) } :
        Commit(r.st, r.replies, r.inp, r.newPlan, KeepIds, MaxApprovalId, 0)

\* The ApprovalDecision a payload's decision string selects in the match of
\* Engine::handle_approval_decision.
DecisionOf(decision) ==
    CASE decision = "approve" -> "Approve"
      [] decision \in { "approve_all", "approve-all" } -> "ApproveAll"
      [] decision = "deny" -> "Deny"
      [] OTHER -> "Other"

\* Engine::handle_protocol_event for an ApprovalDecision body.
CallsOfDecision(payload) ==
    handle_approval_decision(Start(NoFailure), payload).st.n

approval_decision_event(payload, orc) ==
    \E r \in { handle_approval_decision(Start(orc), payload) } :
        Commit(r.st, r.replies,
               [ via |-> "event", route |-> "approval",
                 decision |-> IF r.taken THEN DecisionOf(payload.decision) ELSE "",
                 id |-> IF r.taken THEN payload.approval_id ELSE "",
                 taken |-> r.taken, event |-> None ],
               None, KeepIds, MaxApprovalId, 0)

\* Engine::set_preflight_config
set_preflight_config(config) ==
    /\ config # preflight
    /\ preflight' = config
    /\ replies' = <<>>
    /\ calls' = <<>>
    /\ input' = NoInput
    /\ UNCHANGED << approvals, plans, next_plan_id, denied, execCount,
                    planSteps, planRan, issued, pending_inputs, seen_messages,
                    scope, config_store, conversations, adapter >>

Init ==
    /\ approvals = ApprovalStore_new
    /\ plans = EmptyMap
    /\ next_plan_id = 1
    /\ preflight = DefaultPreflightConfig
    /\ replies = <<>>
    /\ calls = <<>>
    /\ input = NoInput
    /\ denied = {}
    /\ execCount = EmptyMap
    /\ planSteps = EmptyMap
    /\ planRan = EmptyMap
    /\ issued = <<>>
    /\ pending_inputs = EmptyMap
    /\ seen_messages = {}
    /\ scope = RoomScope_default
    /\ config_store = ConfigStore_default
    /\ conversations = ConversationStore_new(HistoryLimit)
    /\ adapter = AdapterStart

Next ==
    \/ \E sender \in Senders, text \in ApprovalTexts :
          \E orc \in OraclesUpTo(CallsOfMessage(sender, text, ChatDecision)) :
              handle_message(sender, text, ChatDecision, orc)
    \/ \E sender \in Requesters, dec \in Decisions :
          \E orc \in OraclesUpTo(CallsOfMessage(sender, PlainText, dec)) :
              handle_message(sender, PlainText, dec, orc)
    \/ \E payload \in DecisionPayloads :
          \E orc \in OraclesUpTo(CallsOfDecision(payload)) :
              approval_decision_event(payload, orc)

Spec == Init /\ [][Next]_vars

\* ------------------------------------------------------------------------
\* SpecStore: the ApprovalStore alone, under any sequence of create and take
\* ------------------------------------------------------------------------
StorePlans ==
    { None,
      Some([ plan_id |-> PlanId(1), remaining |-> << Step(ReadInside, None) >>,
             auto_approve |-> FALSE, completed_steps |-> 0, total_steps |-> 2 ]) }

store_create(sender, request, plan) ==
    /\ Len(issued) < MaxStoreIds
    /\ \E r \in { create(approvals, sender, request,
                          Unwrap(registry_get(request.name)),
                          DefaultRoomConfig, plan) } :
          /\ approvals' = r.store
          /\ issued' = Append(issued, r.id)
    /\ UNCHANGED << plans, next_plan_id, preflight, replies, calls, input,
                    denied, execCount, planSteps, planRan, pending_inputs,
                    seen_messages, scope, config_store, conversations, adapter >>

store_take(id) ==
    /\ \E r \in { take(approvals, id) } : approvals' = r.store
    /\ UNCHANGED << plans, next_plan_id, preflight, replies, calls, input,
                    denied, execCount, planSteps, planRan, issued, pending_inputs,
                    seen_messages, scope, config_store, conversations, adapter >>

NextStore ==
    \/ \E sender \in Senders, request \in { WriteInside, ShellRun },
          plan \in StorePlans :
          store_create(sender, request, plan)
    \/ \E n \in 1..MaxStoreIds : store_take(ApprId(n))

SpecStore == Init /\ [][NextStore]_vars

\* ------------------------------------------------------------------------
\* SpecPlan: plans that pause and resume, with the per-plan history
\* ------------------------------------------------------------------------
PlanTexts ==
    [ word : { "approve", "approve-all", "deny" }, arg : { "" } ]
    \cup [ word : { "approve" },
           arg : { ApprId(n) : n \in 1..MaxPlanApprovals } ]

PlanDecisions ==
    [ type : { "plan" }, request : { UnknownAction }, steps : PlanTable ]

PlanPayloads ==
    [ approval_id : { ApprId(n) : n \in 1..MaxPlanApprovals },
      decision : { "approve", "approve_all", "deny" },
      sender_id : Senders ]

plan_message(sender, text, dec, orc) ==
    \E r \in { handle_message_with_config(sender, text, dec, orc) } :
        Commit(r.st, r.replies, r.inp, r.newPlan, KeepPlans,
               MaxPlanApprovals, MaxPlans)

plan_decision_event(payload, orc) ==
    \E r \in { handle_approval_decision(Start(orc), payload) } :
        Commit(r.st, r.replies,
               [ via |-> "event", route |-> "approval",
                 decision |-> IF r.taken THEN DecisionOf(payload.decision) ELSE "",
                 id |-> IF r.taken THEN payload.approval_id ELSE "",
                 taken |-> r.taken, event |-> None ],
               None, KeepPlans, MaxPlanApprovals, MaxPlans)

NextPlan ==
    \/ \E sender \in Requesters, text \in PlanTexts :
          \E orc \in OraclesUpTo(CallsOfMessage(sender, text, ChatDecision)) :
              plan_message(sender, text, ChatDecision, orc)
    \/ \E sender \in Requesters, dec \in PlanDecisions :
          \E orc \in OraclesUpTo(CallsOfMessage(sender, PlainText, dec)) :
              plan_message(sender, PlainText, dec, orc)
    \/ \E payload \in PlanPayloads :
          \E orc \in OraclesUpTo(CallsOfDecision(payload)) :
              plan_decision_event(payload, orc)

SpecPlan == Init /\ [][NextPlan]_vars

\* ------------------------------------------------------------------------
\* SpecTrace: the engine with every handler call of the last input kept in
\* `calls`, under any preflight configuration
\* ------------------------------------------------------------------------
TraceTexts == [ word : { "approve", "approve-all", "deny" }, arg : { "" } ]

TraceDecisions ==
    [ type : { "action" },
      request : { ReadInside, ReadOutside, ReadTilde, WriteOutside, WriteDotDot,
                  ShellRun },
      steps : { <<>> } ]
    \cup [ type : { "plan" }, request : { UnknownAction },
           steps : { << Step(ReadInside, None), Step(WriteDotDot, None),
                        Step(ReadInside, None) >>,
                     << Step(ReadOutside, None), Step(ReadInside, None) >> } ]

TracePayloads ==
    [ approval_id : { ApprId(n) : n \in 1..MaxTraceApprovals },
      decision : { "approve", "deny" },
      sender_id : Requesters ]

trace_message(sender, text, dec, orc) ==
    \E r \in { handle_message_with_config(sender, text, dec, orc) } :
        Commit(r.st, r.replies, r.inp, r.newPlan, KeepTrace,
               MaxTraceApprovals, MaxTracePlans)

trace_decision_event(payload, orc) ==
    \E r \in { handle_approval_decision(Start(orc), payload) } :
        Commit(r.st, r.replies,
               [ via |-> "event", route |-> "approval",
                 decision |-> IF r.taken THEN DecisionOf(payload.decision) ELSE "",
                 id |-> IF r.taken THEN payload.approval_id ELSE "",
                 taken |-> r.taken, event |-> None ],
               None, KeepTrace, MaxTraceApprovals, MaxTracePlans)

NextTrace ==
    \/ \E sender \in Requesters, text \in TraceTexts :
          \E orc \in OraclesUpTo(CallsOfMessage(sender, text, ChatDecision)) :
              trace_message(sender, text, ChatDecision, orc)
    \/ \E sender \in Requesters, dec \in TraceDecisions :
          \E orc \in OraclesUpTo(CallsOfMessage(sender, PlainText, dec)) :
              trace_message(sender, PlainText, dec, orc)
    \/ \E payload \in TracePayloads :
          \E orc \in OraclesUpTo(CallsOfDecision(payload)) :
              trace_decision_event(payload, orc)
    \/ \E config \in PreflightConfigs : set_preflight_config(config)

SpecTrace == Init /\ [][NextTrace]_vars

\* ------------------------------------------------------------------------
\* SpecFrame: several plans paused at once, decided by approval id
\* ------------------------------------------------------------------------
FramePlans ==
    { << Step(WriteInside, None), Step(ShellRun, None) >>,
      << Step(ReadInside, Some(TRUE)), Step(WriteInside, None) >> }

FrameTexts ==
    [ word : { "approve-all" },
      arg : { ApprId(n) : n \in 1..MaxFrameApprovals } ]

FrameDecisions ==
    [ type : { "plan" }, request : { UnknownAction }, steps : FramePlans ]

FramePayloads ==
    [ approval_id : { ApprId(n) : n \in 1..MaxFrameApprovals },
      decision : { "approve", "approve_all" },
      sender_id : Requesters ]

frame_message(sender, text, dec, orc) ==
    \E r \in { handle_message_with_config(sender, text, dec, orc) } :
        Commit(r.st, r.replies, r.inp, r.newPlan, KeepNone,
               MaxFrameApprovals, MaxFramePlans)

frame_decision_event(payload, orc) ==
    \E r \in { handle_approval_decision(Start(orc), payload) } :
        Commit(r.st, r.replies,
               [ via |-> "event", route |-> "approval",
                 decision |-> IF r.taken THEN DecisionOf(payload.decision) ELSE "",
                 id |-> IF r.taken THEN payload.approval_id ELSE "",
                 taken |-> r.taken, event |-> None ],
               None, KeepNone, MaxFrameApprovals, MaxFramePlans)

NextFrame ==
    \/ \E sender \in Requesters, text \in FrameTexts :
          \E orc \in OraclesUpTo(CallsOfMessage(sender, text, ChatDecision)) :
              frame_message(sender, text, ChatDecision, orc)
    \/ \E sender \in Requesters, dec \in FrameDecisions :
          \E orc \in OraclesUpTo(CallsOfMessage(sender, PlainText, dec)) :
              frame_message(sender, PlainText, dec, orc)
    \/ \E payload \in FramePayloads :
          \E orc \in OraclesUpTo(CallsOfDecision(payload)) :
              frame_decision_event(payload, orc)

SpecFrame == Init /\ [][NextFrame]_vars

\* ------------------------------------------------------------------------
\* SpecInput: need_input decisions and the fill of a PendingInput by the
\* next message of the conversation
\* ------------------------------------------------------------------------
InputTexts ==
    [ word : { "hello", ".", "current directory", "/work/a", "" }, arg : { "" } ]
    \cup [ word : { "approve" }, arg : { "" } ]

\* AiDecision::NeedInput
NeedInput(action, params, missing) ==
    [ type |-> "need_input", action |-> action, params |-> params,
      missing |-> missing ]

InputDecisions ==
    { ChatDecision,
      NeedInput(Some("fs.read_file"), <<>>, << "path" >>),
      NeedInput(Some("fs.write_file"), Params("path", << "work", "new" >>),
                << "content" >>),
      NeedInput(Some("fs.write_file"), <<>>, << "content", "mode" >>),
      NeedInput(Some("fs.write_file"), <<>>, << "content", "Path" >>),
      NeedInput(None, <<>>, << "path" >>) }

input_message(sender, text, dec, orc) ==
    \E r \in { handle_message_with_config(sender, text, dec, orc) } :
        Commit(r.st, r.replies, r.inp, r.newPlan, KeepInputs,
               MaxInputApprovals, 0)

NextInput ==
    \E sender \in Requesters, text \in InputTexts, dec \in InputDecisions :
        \E orc \in OraclesUpTo(CallsOfMessage(sender, text, dec)) :
            input_message(sender, text, dec, orc)

SpecInput == Init /\ [][NextInput]_vars

\* ------------------------------------------------------------------------
\* SpecEvents: protocol Message, RoomScope and ConfigUpdate events
\* ------------------------------------------------------------------------
MessageIdNames == << "m1", "m2", "m3", "m4" >>
MessageIds == { MessageIdNames[i] : i \in 1..MaxMessageIds }

\* MessagePayload; context_only and role are the members of metadata the
\* engine reads.
MessagePayloads ==
    [ message_id : MessageIds, workspace_id : { "w1" }, room_id : { "r1" },
      sender_id : Requesters,
      text : [ word : { "hello", "" }, arg : { "" } ],
      context_only : { None, Some(TRUE) }, role : { None } ]
    \cup [ message_id : MessageIds, workspace_id : { "w1" }, room_id : { "r2" },
           sender_id : Requesters,
           text : [ word : { "hello" }, arg : { "" } ],
           context_only : { None }, role : { None } ]

EventDecisions ==
    { ChatDecision,
      [ type |-> "action", request |-> WriteInside, steps |-> <<>> ] }

\* RoomScopePayload
RoomScopePayloads ==
    { [ mode |-> None,
        workspaces |-> << [ workspace_id |-> "w1", rooms |-> << "r1" >> ] >> ],
      [ mode |-> Some("merge"),
        workspaces |-> << [ workspace_id |-> "w1", rooms |-> << "r2" >> ] >> ] }

\* ConfigUpdatePayload
ConfigUpdatePayloads ==
    { [ mode |-> None,
        scope |-> Some([ workspace_id |-> Some("w1"), room_id |-> Some("r1") ]),
        risk_policy |-> None, action_allowlist |-> None,
        action_denylist |-> Some(<< "fs.write_file" >>),
        dry_run_default |-> None ] }

\* Engine::wrap_response: the Response event of a reply.
wrap_response(r) ==
    [ body |-> "Response", kind |-> r.kind, approval_id |-> r.approval_id,
      plan_id |-> r.plan_id ]

\* The events handle_protocol_event returns for a batch of replies.
returned_events(batch) ==
    [ i \in 1..Len(batch) |-> wrap_response(batch[i]) ]

\* The role of a context-only message.
context_role(payload) ==
    IF IsSome(payload.role) /\ to_lowercase(Unwrap(payload.role)) = "assistant"
    THEN "Assistant" ELSE "User"

\* The Message arm of Engine::handle_protocol_event, without the test of
\* the deduplication set.
handle_protocol_message_unchecked(st0, payload, dec) ==
    LET dropped(st, route) ==
            [ st |-> st, replies |-> <<>>,
              inp |-> [ via |-> "event", route |-> route, decision |-> "",
                        id |-> "", taken |-> FALSE, event |-> Some(payload) ],
              newPlan |-> None ]
    IN
    IF ~allows(scope, payload.workspace_id, payload.room_id)
    THEN dropped(st0, "out_of_scope")
    ELSE
      With([ st0 EXCEPT !.seen_messages = @ \cup { payload.message_id } ], LAMBDA st1 :
      IF payload.context_only = Some(TRUE)
      THEN dropped([ st1 EXCEPT !.conversations =
                       record_context(@, << payload.workspace_id, payload.room_id >>,
                                      context_role(payload),
                                      text_string(payload.text)) ],
                   "context_only")
      ELSE
        With(handle_message_in(st1,
                 [ text |-> payload.text, sender |-> payload.sender_id,
                   channel |-> payload.room_id,
                   workspace_id |-> Some(payload.workspace_id) ],
                 effective_for(config_store, payload.workspace_id, payload.room_id),
                 dec), LAMBDA r :
        [ r EXCEPT !.inp.via = "event", !.inp.event = Some(payload) ]))

\* The Message arm of Engine::handle_protocol_event.
handle_protocol_message(st0, payload, dec) ==
    LET dropped(st, route) ==
            [ st |-> st, replies |-> <<>>,
              inp |-> [ via |-> "event", route |-> route, decision |-> "",
                        id |-> "", taken |-> FALSE, event |-> Some(payload) ],
              newPlan |-> None ]
    IN
    IF ~allows(scope, payload.workspace_id, payload.room_id)
    THEN dropped(st0, "out_of_scope")
    ELSE IF payload.message_id \in st0.seen_messages
    THEN dropped(st0, "duplicate")
    ELSE
      With([ st0 EXCEPT !.seen_messages = @ \cup { payload.message_id } ], LAMBDA st1 :
      IF payload.context_only = Some(TRUE)
      THEN dropped([ st1 EXCEPT !.conversations =
                       record_context(@, << payload.workspace_id, payload.room_id >>,
                                      context_role(payload),
                                      text_string(payload.text)) ],
                   "context_only")
      ELSE
        With(handle_message_in(st1,
                 [ text |-> payload.text, sender |-> payload.sender_id,
                   channel |-> payload.room_id,
                   workspace_id |-> Some(payload.workspace_id) ],
                 effective_for(config_store, payload.workspace_id, payload.room_id),
                 dec), LAMBDA r :
        [ r EXCEPT !.inp.via = "event", !.inp.event = Some(payload) ]))

CallsOfEvent(payload, dec) ==
    handle_protocol_message(Start(NoFailure), payload, dec).st.n

\* Engine::handle_protocol_event for a Message body.
message_event(payload, dec, orc) ==
    \E r \in { handle_protocol_message(Start(orc), payload, dec) } :
        Commit(r.st, r.replies, r.inp, r.newPlan, KeepEvents,
               MaxEventApprovals, 0)

\* The input record of an event that returns nothing and runs no handler.
SilentEvent(route, payload) ==
    [ NoInput EXCEPT !.via = "event", !.route = route, !.event = Some(payload) ]

\* Engine::handle_protocol_event for a RoomScope body.
room_scope_event(payload) ==
    /\ scope' = RoomScope_update(scope, payload)
    /\ replies' = <<>>
    /\ calls' = <<>>
    /\ input' = SilentEvent("room_scope", payload)
    /\ UNCHANGED << approvals, plans, next_plan_id, preflight, denied, execCount,
                    planSteps, planRan, issued, pending_inputs, seen_messages,
                    config_store, conversations, adapter >>

\* Engine::handle_protocol_event for a ConfigUpdate body.
config_update_event(payload) ==
    /\ config_store' = ConfigStore_apply(config_store, payload)
    /\ replies' = <<>>
    /\ calls' = <<>>
    /\ input' = SilentEvent("config_update", payload)
    /\ UNCHANGED << approvals, plans, next_plan_id, preflight, denied, execCount,
                    planSteps, planRan, issued, pending_inputs, seen_messages,
                    scope, conversations, adapter >>

NextEvents ==
    \/ \E payload \in MessagePayloads, dec \in EventDecisions :
           \E orc \in OraclesUpTo(CallsOfEvent(payload, dec)) :
               message_event(payload, dec, orc)
    \/ \E payload \in RoomScopePayloads : room_scope_event(payload)
    \/ \E payload \in ConfigUpdatePayloads : config_update_event(payload)

SpecEvents == Init /\ [][NextEvents]_vars

\* ------------------------------------------------------------------------
\* SpecSchema: Engine::handle_protocol_event over every body variant and
\* over events of a foreign schema version
\* ------------------------------------------------------------------------
SchemaMessages ==
    [ message_id : { "m1", "m2" }, workspace_id : { "w1" }, room_id : { "r1" },
      sender_id : Requesters, text : [ word : { "hello" }, arg : { "" } ],
      context_only : { None }, role : { None } ]

SchemaDecisions ==
    [ approval_id : { "appr-1" }, decision : { "approve", "deny" },
      sender_id : Requesters ]

\* ProtocolEvent: schema_version and the body's tag and payload.
ProtocolEvents ==
    [ schema_version : { "robit.v1", "robit.v0" },
      type : { "Message" }, payload : SchemaMessages ]
    \cup [ schema_version : { "robit.v1", "robit.v0" },
           type : { "ApprovalDecision" }, payload : SchemaDecisions ]
    \cup [ schema_version : { "robit.v1", "robit.v0" },
           type : { "RoomScope" }, payload : RoomScopePayloads ]
    \cup [ schema_version : { "robit.v1", "robit.v0" },
           type : { "ConfigUpdate" }, payload : ConfigUpdatePayloads ]
    \cup [ schema_version : { "robit.v1", "robit.v0" },
           type : { "ActionListRequest", "Ping", "Pong", "Response",
                    "ActionListResult" },
           payload : { None } ]

\* The test of the schema version, read as accepting every version.
schema_accepted_any(event) ==
    event.schema_version = event.schema_version

\* The test of the schema version at the head of handle_protocol_event.
schema_accepted(event) ==
    event.schema_version = "robit.v1"

\* An event that changes nothing and runs no handler; returns are the
\* bodies of the events it is answered with.
quiet_event(event, route, returns) ==
    /\ replies' = <<>>
    /\ calls' = <<>>
    /\ input' = [ SilentEvent(route, event) EXCEPT !.returns = returns ]
    /\ UNCHANGED << approvals, plans, next_plan_id, preflight, denied, execCount,
                    planSteps, planRan, issued, pending_inputs, seen_messages,
                    scope, config_store, conversations, adapter >>

\* Engine::handle_protocol_event
handle_protocol_event(event, dec, orc) ==
    \/ /\ ~schema_accepted(event)
       /\ quiet_event(event, "schema_version", <<>>)
    \/ \E r \in IF schema_accepted(event) /\ event.type = "Message"
                THEN { handle_protocol_message(Start(orc), event.payload, dec) }
                ELSE {} :
              Commit(r.st, r.replies, [ r.inp EXCEPT !.event = Some(event) ],
                     r.newPlan, KeepEvents, MaxEventApprovals, 0)
    \/ \E r \in IF schema_accepted(event) /\ event.type = "ApprovalDecision"
                THEN { handle_approval_decision(Start(orc), event.payload) }
                ELSE {} :
              Commit(r.st, r.replies,
                     [ via |-> "event", route |-> "approval",
                       decision |-> IF r.taken
                                    THEN DecisionOf(event.payload.decision) ELSE "",
                       id |-> IF r.taken THEN event.payload.approval_id ELSE "",
                       taken |-> r.taken, event |-> Some(event) ],
                     None, KeepEvents, MaxEventApprovals, 0)
    \/ /\ schema_accepted(event)
       /\ event.type = "RoomScope"
       /\ scope' = RoomScope_update(scope, event.payload)
       /\ replies' = <<>>
       /\ calls' = <<>>
       /\ input' = SilentEvent("room_scope", event)
       /\ UNCHANGED << approvals, plans, next_plan_id, preflight, denied,
                       execCount, planSteps, planRan, issued, pending_inputs,
                       seen_messages, config_store, conversations, adapter >>
    \/ /\ schema_accepted(event)
       /\ event.type = "ConfigUpdate"
       /\ config_store' = ConfigStore_apply(config_store, event.payload)
       /\ replies' = <<>>
       /\ calls' = <<>>
       /\ input' = SilentEvent("config_update", event)
       /\ UNCHANGED << approvals, plans, next_plan_id, preflight, denied,
                       execCount, planSteps, planRan, issued, pending_inputs,
                       seen_messages, scope, conversations, adapter >>
    \/ /\ schema_accepted(event)
       /\ event.type = "ActionListRequest"
       /\ quiet_event(event, "action_list", << "ActionListResult" >>)
    \/ /\ schema_accepted(event)
       /\ event.type = "Ping"
       /\ quiet_event(event, "ping", << "Pong" >>)
    \/ /\ schema_accepted(event)
       /\ event.type \in { "Response", "ActionListResult", "Pong" }
       /\ quiet_event(event, "ignored", <<>>)

SchemaCalls(event, dec) ==
    CASE event.type = "Message" -> CallsOfEvent(event.payload, dec)
      [] event.type = "ApprovalDecision" -> CallsOfDecision(event.payload)
      [] OTHER -> 0

NextSchema ==
    \E event \in ProtocolEvents, dec \in { [ type |-> "action",
                                              request |-> WriteInside,
                                              steps |-> <<>> ] } :
        \E orc \in OraclesUpTo(SchemaCalls(event, dec)) :
            handle_protocol_event(event, dec, orc)

SpecSchema == Init /\ [][NextSchema]_vars

\* ------------------------------------------------------------------------
\* SpecConversations: the ConversationStore under record_exchange,
\* record_context, load_from_path and save_to_path
\* ------------------------------------------------------------------------
ConversationKey == << "w1", "r1" >>

\* Reply batches of up to two replies, with and without text.
ConversationBatches ==
    UNION { [ 1..n -> [ kind : { "chat" }, text : { "", "x" } ] ] : n \in 0..2 }

\* The messages of a persisted conversation longer than any limit in use.
LongConversation ==
    [ i \in 1..(MaxHistoryLimit + 2) |->
        [ role |-> IF i % 2 = 1 THEN "User" ELSE "Assistant",
          content |-> IF i <= 2 THEN "old" ELSE "x" ] ]

\* PersistedStore files found on disk.
PersistedFiles ==
    { [ max_messages |-> 50,
        conversations |-> << [ workspace_id |-> "w1", room_id |-> room,
                               messages |-> SubSeq(LongConversation, 1, n) ] >> ] :
      room \in { "r1", "r2" }, n \in { 0, 2, MaxHistoryLimit + 2 } }

\* A step of the store alone: what was called is kept in input.
conversation_step(store, route, args) ==
    /\ conversations' = store
    /\ replies' = <<>>
    /\ calls' = <<>>
    /\ input' = SilentEvent(route, args)
    /\ UNCHANGED << approvals, plans, next_plan_id, preflight, denied, execCount,
                    planSteps, planRan, issued, pending_inputs, seen_messages,
                    scope, config_store, adapter >>

store_record_exchange(user_input, batch) ==
    conversation_step(record_exchange(conversations, ConversationKey, user_input, batch),
                      "record_exchange",
                      [ user_input |-> user_input, batch |-> batch ])

store_record_context(role, content) ==
    conversation_step(record_context(conversations, ConversationKey, role, content),
                      "record_context", [ role |-> role, content |-> content ])

store_load(file) ==
    conversation_step(load_from_path(conversations, file), "load", file)

\* save_to_path, then load_from_path into a new store with the same
\* max_messages.
store_save_and_load ==
    \E file \in save_to_path(conversations) :
        conversation_step(
            load_from_path(ConversationStore_new(conversations.max_messages), file),
            "save_load", file)

InitConversations ==
    /\ conversations \in { ConversationStore_new(n) : n \in 0..MaxHistoryLimit }
    /\ approvals = ApprovalStore_new
    /\ plans = EmptyMap
    /\ next_plan_id = 1
    /\ preflight = DefaultPreflightConfig
    /\ replies = <<>>
    /\ calls = <<>>
    /\ input = NoInput
    /\ denied = {}
    /\ execCount = EmptyMap
    /\ planSteps = EmptyMap
    /\ planRan = EmptyMap
    /\ issued = <<>>
    /\ pending_inputs = EmptyMap
    /\ seen_messages = {}
    /\ scope = RoomScope_default
    /\ config_store = ConfigStore_default
    /\ adapter = AdapterStart

NextConversations ==
    \/ \E batch \in ConversationBatches : store_record_exchange("a", batch)
    \/ \E role \in { "User", "Assistant" }, content \in { "", "c" } :
           store_record_context(role, content)
    \/ \E file \in PersistedFiles : store_load(file)
    \/ store_save_and_load

SpecConversations == InitConversations /\ [][NextConversations]_vars

\* ------------------------------------------------------------------------
\* SpecConfig: ConfigUpdate events at the three levels of the ConfigStore,
\* in both modes, and protocol Messages handled under the effective config
\* ------------------------------------------------------------------------
\* The risk policies a ConfigUpdate carries: one that asks approval for Low
\* only and switches low_auto_execute off, one that lists Low and High and
\* leaves low_auto_execute to its default.
ConfigRiskPolicies ==
    { [ low_auto_execute |-> Some(FALSE), approval_for |-> Some(<< "Low" >>) ],
      [ low_auto_execute |-> None, approval_for |-> Some(<< "Low", "High" >>) ] }

ConfigScopes ==
    { None,
      Some([ workspace_id |-> Some("w1"), room_id |-> None ]),
      Some([ workspace_id |-> Some("w1"), room_id |-> Some("r1") ]) }

\* ConfigUpdatePayload: a risk policy for any level, or a denylist of one
\* action for the room.
ConfigPayloads ==
    [ mode : { None, Some("replace") }, scope : ConfigScopes,
      risk_policy : { Some(p) : p \in ConfigRiskPolicies },
      action_allowlist : { None }, action_denylist : { None },
      dry_run_default : { None } ]
    \cup [ mode : { None, Some("replace") },
           scope : { Some([ workspace_id |-> Some("w1"), room_id |-> Some("r1") ]) },
           risk_policy : { None }, action_allowlist : { None },
           action_denylist : { Some(<< "fs.read_file" >>) },
           dry_run_default : { None } ]

\* MessagePayload of the messages handled, each with an id of its own.
ConfigMessages ==
    { [ message_id |-> MessageIdNames[i], workspace_id |-> "w1", room_id |-> "r1",
        sender_id |-> "alice", text |-> [ word |-> "hello", arg |-> "" ],
        context_only |-> None, role |-> None ] : i \in 1..MaxConfigMessages }

\* The planner's decisions: a single Low-risk action, a single action whose
\* spec requires approval.
ConfigDecisions ==
    { [ type |-> "action", request |-> ReadInside, steps |-> <<>> ],
      [ type |-> "action", request |-> WriteInside, steps |-> <<>> ] }

\* Engine::handle_protocol_event for a Message body, under the effective
\* config of its room.
config_message_event(payload, dec, orc) ==
    \E r \in { handle_protocol_message(Start(orc), payload, dec) } :
        Commit(r.st, r.replies, r.inp, r.newPlan, KeepInputs,
               MaxEventApprovals, 0)

NextConfig ==
    \/ \E payload \in ConfigPayloads : config_update_event(payload)
    \/ \E payload \in ConfigMessages, dec \in ConfigDecisions :
           \E orc \in OraclesUpTo(CallsOfEvent(payload, dec)) :
               config_message_event(payload, dec, orc)

SpecConfig == Init /\ [][NextConfig]_vars

\* ------------------------------------------------------------------------
\* SpecMerge: ConfigUpdate events that merge into the global config and
\* into one room's config
\* ------------------------------------------------------------------------
\* ConfigUpdatePayload of mode merge (the default when mode is absent) that
\* sets one field, of the global config or of one room's.
MergePayloads ==
    LET empty == [ mode |-> None, scope |-> None, risk_policy |-> None,
                   action_allowlist |-> None, action_denylist |-> None,
                   dry_run_default |-> None ]
        allow(l) == [ empty EXCEPT !.action_allowlist = Some(l) ]
    IN  { [ empty EXCEPT !.risk_policy = Some(p) ] : p \in ConfigRiskPolicies }
        \cup { allow(<< "fs.read_file" >>), allow(<< "fs.write_file" >>),
               [ allow(<< "fs.read_file" >>) EXCEPT !.mode = Some("merge") ],
               [ allow(<< "fs.write_file" >>) EXCEPT
                   !.scope = Some([ workspace_id |-> Some("w1"),
                                    room_id |-> Some("r1") ]) ],
               [ empty EXCEPT !.action_denylist = Some(<< "shell.run" >>) ],
               [ empty EXCEPT !.dry_run_default = Some(TRUE) ] }

NextMerge ==
    \E payload \in MergePayloads : config_update_event(payload)

SpecMerge == Init /\ [][NextMerge]_vars

\* ------------------------------------------------------------------------
\* SpecPlanner: text messages planned by the LLM planner, the heuristic
\* plan or the rule planner
\* ------------------------------------------------------------------------
PlannerTexts ==
    [ word : { "hello", "System Status", "", "approve" },
      arg : { "" } ]

\* Result<AiDecision>
AiErr == [ ok |-> FALSE ]
AiOk(decision) == [ ok |-> TRUE, decision |-> decision ]
AiUnknown(message) == [ type |-> "unknown", message |-> message ]

\* PlannerResponse: Action, NeedInput, Unknown.
RuleResponses ==
    { [ type |-> "action", request |-> WriteInside, steps |-> <<>> ],
      NeedInput(None, <<>>, <<>>),
      [ type |-> "rule_unknown" ] }

\* What the planners answer; an answer is drawn for the calls the engine
\* can make: the rule planner's without a backend or after a failed first
\* call, the RETRY call's after a format-invalid first answer.
AiInputs ==
    LET unused == AiErr
        first_answers ==
            { AiOk([ type |-> "action", request |-> ReadInside, steps |-> <<>> ]),
              AiOk([ type |-> "plan", request |-> UnknownAction,
                     steps |-> << Step(WriteInside, None), Step(ReadInside, None) >> ]),
              AiOk([ type |-> "plan", request |-> UnknownAction,
                     steps |-> << Step(ReadInside, None), Step(ReadTilde, None) >> ]),
              AiOk(AiUnknown("no idea")) }
        retry_answers ==
            { AiErr, AiOk(AiUnknown(FormatInvalid)),
              AiOk([ type |-> "action", request |-> ReadInside, steps |-> <<>> ]) }
    IN  [ backend : { FALSE }, first : { unused }, retry : { unused },
          rule : RuleResponses ]
        \cup [ backend : { TRUE }, first : { AiErr }, retry : { unused },
               rule : RuleResponses ]
        \cup [ backend : { TRUE }, first : first_answers, retry : { unused },
               rule : { [ type |-> "rule_unknown" ] } ]
        \cup [ backend : { TRUE }, first : { AiOk(AiUnknown(FormatInvalid)) },
               retry : retry_answers, rule : { [ type |-> "rule_unknown" ] } ]

CallsOfPlanned(sender, text, ai) ==
    handle_message_planned(Start(NoFailure), AdapterMessage(sender, text),
                           DefaultRoomConfig, ai).st.n

\* Engine::handle_message for a text message, with its planners.
planner_message(sender, text, ai, orc) ==
    \E r \in { handle_message_planned(Start(orc), AdapterMessage(sender, text),
                                      DefaultRoomConfig, ai) } :
        Commit(r.st, r.replies, r.inp, r.newPlan, KeepInputs,
               MaxPlannerApprovals, MaxPlannerPlans)

NextPlanner ==
    \E sender \in Requesters, text \in PlannerTexts, ai \in AiInputs :
        \E orc \in OraclesUpTo(CallsOfPlanned(sender, text, ai)) :
            planner_message(sender, text, ai, orc)

SpecPlanner == Init /\ [][NextPlanner]_vars

\* ------------------------------------------------------------------------
\* SpecAdapter: Engine::run_with_adapter over an adapter whose recv returns
\* messages, None or an error and whose send succeeds or fails
\* ------------------------------------------------------------------------
\* Result<Option<InboundMessage>>
RecvResults ==
    { [ kind |-> "Err", text |-> [ word |-> "", arg |-> "" ] ],
      [ kind |-> "None", text |-> [ word |-> "", arg |-> "" ] ] }
    \cup [ kind : { "Some" },
           text : [ word : { "hello", "", "  ", "approve" }, arg : { "" } ] ]

\* The planner's decisions: a chat answer, an action that needs approval, a
\* plan whose second step needs approval, a plan that stops at its first
\* step.
AdapterDecisions ==
    { ChatDecision,
      [ type |-> "action", request |-> WriteInside, steps |-> <<>> ],
      [ type |-> "plan", request |-> UnknownAction,
        steps |-> << Step(ReadInside, None), Step(ReadInside, Some(TRUE)) >> ],
      [ type |-> "plan", request |-> UnknownAction,
        steps |-> << Step(ReadOutside, None), Step(ReadInside, None) >> ] }

\* The message recv returned, with its text trimmed as handle_message sees
\* it.
ReceivedMessage(result) ==
    AdapterMessage("alice", [ result.text EXCEPT !.word = trim(@) ])

\* What handle_message returns for the message recv returned; a blank
\* message is skipped by the loop.
received_handled(result, dec, orc) ==
    IF result.kind # "Some" \/ trim(result.text.word) = ""
    THEN [ st |-> Start(orc), replies |-> <<>>,
           inp |-> [ via |-> "text", route |-> "skipped", decision |-> "",
                     id |-> "", taken |-> FALSE,
                     event |-> Some(result) ] ]
    ELSE handle_message_in(Start(orc), ReceivedMessage(result),
                           DefaultRoomConfig, dec)

CallsOfReceived(result, dec) == received_handled(result, dec, NoFailure).st.n

\* One turn of the loop up to its next adapter call: recv, and for a
\* message handle_message.
adapter_recv(result, dec, orc) ==
    \E r \in IF adapter.pc = "recv"
                 /\ (result.kind = "Some" => adapter.received < MaxAdapterMessages)
              THEN { received_handled(result, dec, orc) } ELSE {} :
        /\ adapter' = run_recv(adapter, result, r.replies)
        /\ approvals' = r.st.approvals
        /\ plans' = r.st.plans
        /\ next_plan_id' = r.st.next_plan_id
        /\ pending_inputs' = r.st.pending_inputs
        /\ seen_messages' = r.st.seen_messages
        /\ replies' = r.replies
        /\ calls' = r.st.calls
        /\ input' = [ via |-> r.inp.via, route |-> r.inp.route,
                      decision |-> r.inp.decision, id |-> r.inp.id,
                      taken |-> r.inp.taken, executes |-> Executes(r.st.calls),
                      event |-> Some(result), returns |-> <<>> ]
        /\ UNCHANGED << preflight, denied, execCount, planSteps, planRan, issued,
                        scope, config_store, conversations >>

\* The loop's adapter.send of the next reply.
adapter_send(ok) ==
    \E loop \in IF adapter.pc = "send" THEN { run_send(adapter, ok) } ELSE {} :
        /\ adapter' = loop
        /\ UNCHANGED << approvals, plans, next_plan_id, preflight, replies, calls,
                        input, denied, execCount, planSteps, planRan, issued,
                        pending_inputs, seen_messages, scope, config_store,
                        conversations >>

NextAdapter ==
    \/ \E result \in RecvResults, dec \in AdapterDecisions :
           \E orc \in OraclesUpTo(CallsOfReceived(result, dec)) :
               adapter_recv(result, dec, orc)
    \/ \E ok \in BOOLEAN : adapter_send(ok)

SpecAdapter == Init /\ [][NextAdapter]_vars

\* ------------------------------------------------------------------------
\* SpecScope: RoomScope events of either mode, with one, several or no
\* pairs, between Message events of two rooms
\* ------------------------------------------------------------------------
\* RoomScopePayload: mode absent, replace or merge.
ScopePayloads ==
    [ mode : { None, Some("replace"), Some("merge") },
      workspaces : { <<>>,
                     << [ workspace_id |-> "w1", rooms |-> << "r1" >> ] >>,
                     << [ workspace_id |-> "w1", rooms |-> << "r2" >> ] >>,
                     << [ workspace_id |-> "w1", rooms |-> <<>> ],
                        [ workspace_id |-> "w2", rooms |-> << "r1", "r2" >> ] >> } ]

ScopeMessages ==
    [ message_id : MessageIds, workspace_id : { "w1" }, room_id : { "r1", "r2" },
      sender_id : Requesters,
      text : [ word : { "hello" }, arg : { "" } ],
      context_only : { None }, role : { None } ]

NextScope ==
    \/ \E payload \in ScopeMessages :
           \E orc \in OraclesUpTo(CallsOfEvent(payload, ChatDecision)) :
               message_event(payload, ChatDecision, orc)
    \/ \E payload \in ScopePayloads : room_scope_event(payload)

SpecScope == Init /\ [][NextScope]_vars

\* ------------------------------------------------------------------------
\* SpecContext: Message events marked context_only, with every role and
\* with texts that need trimming, between messages that reach the planner
\* ------------------------------------------------------------------------
ContextMessages ==
    [ message_id : MessageIds, workspace_id : { "w1" }, room_id : { "r1" },
      sender_id : Requesters,
      text : [ word : { "hello", " hello ", "  " }, arg : { "" } ],
      context_only : { Some(TRUE) },
      role : { None, Some("assistant"), Some("Assistant"), Some("user") } ]
    \cup [ message_id : MessageIds, workspace_id : { "w1" }, room_id : { "r1", "r2" },
           sender_id : Requesters,
           text : [ word : { "hello" }, arg : { "" } ],
           context_only : { None }, role : { None } ]

ContextScopePayloads ==
    { [ mode |-> None,
        workspaces |-> << [ workspace_id |-> "w1", rooms |-> << "r1" >> ] >> ] }

ContextDecision == [ type |-> "action", request |-> WriteInside, steps |-> <<>> ]

NextContext ==
    \/ \E payload \in ContextMessages :
           \E orc \in OraclesUpTo(CallsOfEvent(payload, ContextDecision)) :
               message_event(payload, ContextDecision, orc)
    \/ \E payload \in ContextScopePayloads : room_scope_event(payload)

SpecContext == Init /\ [][NextContext]_vars

\* ------------------------------------------------------------------------
\* Properties
\* ------------------------------------------------------------------------
\* The registered actions that need approval under the default policy.
ApprovalActions == { "fs.write_file", "shell.run" }

\* The reply kinds that close an approval.
TerminalKinds ==
    { "action_result", "plan_completed", "plan_stopped", "error", "cancelled" }

RequestOf(c) == [ name |-> c.name, params |-> c.params ]

StepRequest(step) == [ name |-> step.action, params |-> step.params ]

\* C1: after a deny decision for a pending approval id, by text or by
\* protocol event, the PendingAction is no longer in the approval store and
\* execute is not invoked for it in any later state: every id ever denied
\* is absent from the pending map and has never been executed.
C1_DeniedGoneAndNeverExecuted ==
    \A id \in denied :
        /\ id \notin DOMAIN approvals.pending
        /\ execCount[id] = 0

\* An id was denied and, later, another pending action was approved and
\* executed.
C1_Witness ==
    \E id \in denied : input.taken /\ input.id # id /\ input.executes > 0

\* C2: a single action request that needs approval is stored as a
\* PendingAction (with no plan) and answered by one approval_request, with
\* no execute call; on the action route no action needing approval is
\* executed, and an execute made for an approval id happens only while an
\* approve or approve-all decision takes that id out of the store.
C2_ApprovalBeforeExecute ==
    [][ /\ input'.route = "action" =>
              /\ \A i \in 1..Len(calls') :
                    calls'[i].op = "execute" => calls'[i].name \notin ApprovalActions
              /\ (\E i \in 1..Len(calls') :
                      /\ calls'[i].op = "validate"
                      /\ calls'[i].ok
                      /\ calls'[i].name \in ApprovalActions)
                  => LET id == ApprId(approvals.next_id) IN
                     /\ approvals'.next_id = approvals.next_id + 1
                     /\ id \in DOMAIN approvals'.pending
                     /\ approvals'.pending[id].plan = None
                     /\ approvals'.pending[id].request = RequestOf(calls'[Len(calls')])
                     /\ Len(replies') = 1
                     /\ replies'[1].kind = "approval_request"
                     /\ replies'[1].approval_id = id
                     /\ input'.executes = 0
        /\ \A i \in 1..Len(calls') :
              (calls'[i].op = "execute" /\ calls'[i].appr # "") =>
                  /\ calls'[i].appr \in DOMAIN approvals.pending
                  /\ calls'[i].appr \notin DOMAIN approvals'.pending
                  /\ input'.taken
                  /\ input'.id = calls'[i].appr
                  /\ input'.decision \in { "Approve", "ApproveAll" }
      ]_vars

\* A pending single action request was approved and executed.
C2_Witness ==
    /\ input.taken
    /\ input.decision = "Approve"
    /\ \E i \in 1..Len(calls) :
          /\ calls[i].op = "execute"
          /\ calls[i].appr = input.id
          /\ calls[i].plan = ""
          /\ calls[i].name \in ApprovalActions

\* The i-th call of the last input is an execute that directly follows a
\* validate that returned ok and a preflight that allowed the same request
\* (or strict is off).
CheckedExecute(i) ==
    /\ i >= 3
    /\ calls[i].op = "execute"
    /\ calls[i - 1].op = "validate"
    /\ calls[i - 1].ok
    /\ RequestOf(calls[i - 1]) = RequestOf(calls[i])
    /\ calls[i - 2].op = "preflight"
    /\ RequestOf(calls[i - 2]) = RequestOf(calls[i])
    /\ (calls[i - 2].ok \/ ~preflight.strict)

\* C3: on every path, each action_result reply of an input is preceded,
\* within the handling of that input, by a preflight of that action's params
\* that allowed it (or strict is off) and by a validate that returned ok;
\* no execute is made without them.
C3_ResultAfterPreflightAndValidate ==
    /\ \A i \in 1..Len(calls) : calls[i].op = "execute" => CheckedExecute(i)
    /\ \A j \in 1..Len(replies) :
          replies[j].kind = "action_result" =>
              \E i \in 1..Len(calls) :
                  /\ CheckedExecute(i)
                  /\ calls[i].ok
                  /\ calls[i].name = replies[j].action

\* An approved pending action produced an action_result under a strict
\* preflight.
C3_Witness ==
    /\ input.taken
    /\ preflight.strict
    /\ preflight.enabled
    /\ HasKind(replies, "action_result")

\* The path, as the operating system resolves it, is under no allowed root.
OutsideEveryRoot(raw) ==
    LET resolved == canonicalize(expand_tilde(raw))
    IN  \A i \in 1..Len(Policy.allowed_roots) :
            ~starts_with(resolved, Policy.allowed_roots[i])

\* C4: with enforce_policy_roots and strict both true, execute is never
\* invoked for an action whose params contain a path outside every allowed
\* root.
C4_NoExecuteOutsideRoots ==
    (preflight.enforce_policy_roots /\ preflight.strict) =>
        \A i \in 1..Len(calls) :
            calls[i].op = "execute" =>
                LET paths == collect_paths(calls[i].params, DefaultPathKeys)
                IN  \A j \in 1..Len(paths) : ~OutsideEveryRoot(paths[j])

\* C5: a PendingAction is executed at most once; once an approval id has
\* left the store, no later step executes it or finds it pending again,
\* and an id is executed only in the step that takes it.
C5_ExecutedAtMostOnce ==
    [][ \A id \in DOMAIN execCount :
          /\ execCount'[id] <= 1
          /\ id \notin DOMAIN approvals.pending =>
                /\ id \notin DOMAIN approvals'.pending
                /\ execCount'[id] = execCount[id]
          /\ execCount'[id] > execCount[id] =>
                /\ id \notin DOMAIN approvals'.pending
                /\ input'.taken
                /\ input'.id = id
      ]_vars

\* An id was executed once and has left the store, and a later decision
\* consumed another id.
C5_Witness ==
    \E id \in DOMAIN execCount :
        /\ execCount[id] = 1
        /\ id \notin DOMAIN approvals.pending
        /\ input.taken
        /\ input.id # id

\* C6: every text decision or protocol ApprovalDecision event that takes a
\* pending approval id out of the store yields at least one reply of kind
\* action_result, plan_completed, plan_stopped, error or cancelled.
C6_ConsumedYieldsTerminalReply ==
    input.taken => \E i \in 1..Len(replies) : replies[i].kind \in TerminalKinds

\* C7: after any sequence of create and take, every PendingAction is stored
\* under an id that create returned, and every id in the latest-by-sender
\* index is a key of the pending map, held for that sender.
C7_IndexPointsToPending ==
    /\ DOMAIN approvals.pending \subseteq Range(issued)
    /\ \A s \in DOMAIN approvals.latest_by_sender :
          LET id == approvals.latest_by_sender[s]
          IN  /\ id \in DOMAIN approvals.pending
              /\ approvals.pending[id].sender = s

\* Some created ids were taken, and both senders still have a latest id.
C7_Witness ==
    /\ Cardinality(DOMAIN approvals.pending) < Len(issued)
    /\ DOMAIN approvals.latest_by_sender = Senders

\* C8: every id returned by create differs from every id returned earlier,
\* whether or not the earlier one is still pending.
C8_IdsNeverReused ==
    \A i, j \in 1..Len(issued) : i # j => issued[i] # issued[j]

\* create returned MaxStoreIds ids and only the last of them is pending.
C8_Witness ==
    /\ Len(issued) = MaxStoreIds
    /\ DOMAIN approvals.pending = { issued[MaxStoreIds] }

\* C9: a paused plan has exactly one PendingAction; it holds the step that
\* follows the steps executed so far, the steps after it as remaining, the
\* number of executed steps as completed_steps and the plan's original
\* length as total_steps; the steps executed for a plan are always a prefix
\* of its steps, so each runs at most once, in order, and none is skipped.
C9_PlanKeepsPosition ==
    /\ \A p \in DOMAIN planSteps :
          /\ Len(planRan[p]) <= Len(planSteps[p])
          /\ \A i \in 1..Len(planRan[p]) :
                planRan[p][i] = [ action |-> planSteps[p][i].action,
                                  params |-> planSteps[p][i].params ]
    /\ \A id \in DOMAIN approvals.pending :
          IsSome(approvals.pending[id].plan) =>
              LET ctx == Unwrap(approvals.pending[id].plan)
                  steps == planSteps[ctx.plan_id]
                  ran == Len(planRan[ctx.plan_id])
              IN  /\ ctx.completed_steps = ran
                  /\ ctx.total_steps = Len(steps)
                  /\ ran < Len(steps)
                  /\ approvals.pending[id].request = StepRequest(steps[ran + 1])
                  /\ ctx.remaining = SubSeq(steps, ran + 2, Len(steps))
                  /\ \A other \in DOMAIN approvals.pending :
                        (/\ IsSome(approvals.pending[other].plan)
                         /\ Unwrap(approvals.pending[other].plan).plan_id = ctx.plan_id)
                        => other = id

\* A plan was resumed by an approve, executed a step and paused again with
\* steps remaining.
C9_Witness ==
    /\ input.taken
    /\ input.decision = "Approve"
    /\ \E id \in DOMAIN approvals.pending :
          /\ IsSome(approvals.pending[id].plan)
          /\ Unwrap(approvals.pending[id].plan).completed_steps >= 1
          /\ Unwrap(approvals.pending[id].plan).remaining # <<>>

NeedsApprovalStep(step) ==
    step.requires_approval = Some(TRUE) \/ step.action \in ApprovalActions

\* The position in steps of the first step that needs approval, or
\* Len(steps) + 1 if none does.
FirstGate(steps) ==
    LET gated == { i \in 1..Len(steps) : NeedsApprovalStep(steps[i]) }
    IN  IF gated = {} THEN Len(steps) + 1
        ELSE CHOOSE i \in gated : \A k \in gated : i <= k

\* C10: an approve-all that takes a pending plan step creates no further
\* PendingAction and no approval_request; a plain approve executes nothing
\* past the next remaining step that needs approval, and pauses on it with a
\* new PendingAction unless a step before it failed or it was refused.
C10_ApproveAllRunsThrough ==
    [][ \A id \in DOMAIN approvals.pending :
          (input'.taken /\ input'.id = id /\ IsSome(approvals.pending[id].plan)) =>
              LET ctx == Unwrap(approvals.pending[id].plan)
                  gate == FirstGate(ctx.remaining)
                  new == ApprId(approvals.next_id)
              IN  /\ input'.decision = "ApproveAll" =>
                        /\ approvals'.next_id = approvals.next_id
                        /\ ~HasKind(replies', "approval_request")
                        /\ input'.executes <= 1 + Len(ctx.remaining)
                  /\ input'.decision = "Approve" =>
                        /\ input'.executes <= gate
                        /\ approvals'.next_id > approvals.next_id =>
                              /\ input'.executes = gate
                              /\ new \in DOMAIN approvals'.pending
                              /\ approvals'.pending[new].request
                                    = StepRequest(ctx.remaining[gate])
                              /\ ~Unwrap(approvals'.pending[new].plan).auto_approve
                        /\ (/\ input'.executes = gate
                            /\ gate <= Len(ctx.remaining)
                            /\ ~HasKind(replies', "error")
                            /\ ~HasKind(replies', "plan_stopped")
                            /\ ~HasKind(replies', "plan_completed"))
                           => approvals'.next_id = approvals.next_id + 1
      ]_vars

\* An approve-all took a pending plan step and the steps after it ran in
\* the same handling, with no new PendingAction.
C10_Witness ==
    /\ input.taken
    /\ input.decision = "ApproveAll"
    /\ input.executes >= 2
    /\ ~HasKind(replies, "approval_request")

\* C11: an approve-all that takes one pending plan step leaves every other
\* PendingAction in the store as it was (still pending, with its own
\* PlanContext, whose auto_approve stays false) and leaves the progress
\* entry of every other plan as it was.
C11_ApproveAllTouchesOnePlan ==
    [][ \A id \in DOMAIN approvals.pending :
          (/\ input'.taken
           /\ input'.id = id
           /\ input'.decision = "ApproveAll"
           /\ IsSome(approvals.pending[id].plan)) =>
              LET p == Unwrap(approvals.pending[id].plan).plan_id
              IN  /\ \A other \in DOMAIN approvals.pending \ { id } :
                        /\ other \in DOMAIN approvals'.pending
                        /\ approvals'.pending[other] = approvals.pending[other]
                        /\ IsSome(approvals.pending[other].plan) =>
                              ~Unwrap(approvals'.pending[other].plan).auto_approve
                  /\ \A q \in DOMAIN plans \ { p } :
                        /\ q \in DOMAIN plans'
                        /\ plans'[q] = plans[q]
      ]_vars

\* An approve-all ran a plan through while a step of another plan was
\* pending and that plan's progress entry was in the plans map.
C11_Witness ==
    /\ input.taken
    /\ input.decision = "ApproveAll"
    /\ input.executes >= 2
    /\ \E other \in DOMAIN approvals.pending :
          /\ IsSome(approvals.pending[other].plan)
          /\ Unwrap(approvals.pending[other].plan).plan_id \in DOMAIN plans

\* C12: when an approve or approve-all takes a pending plan step and that
\* step does not execute successfully (it fails at preflight, validate or
\* execute), every handler call of the input is for the approved step, no
\* PendingAction is created, and no PendingAction of that plan is left in
\* the store, so no remaining step is executed then or later; calls for
\* remaining steps are made only after a successful execute of the
\* approved step.
C12_RemainderOnlyAfterSuccess ==
    [][ \A id \in DOMAIN approvals.pending :
          (/\ input'.taken
           /\ input'.id = id
           /\ input'.decision \in { "Approve", "ApproveAll" }
           /\ IsSome(approvals.pending[id].plan)) =>
              LET p == Unwrap(approvals.pending[id].plan).plan_id
                  succeeded == \E i \in 1..Len(calls') :
                                  /\ calls'[i].op = "execute"
                                  /\ calls'[i].appr = id
                                  /\ calls'[i].ok
              IN  ~succeeded =>
                      /\ \A i \in 1..Len(calls') : calls'[i].appr = id
                      /\ approvals'.next_id = approvals.next_id
                      /\ \A o \in DOMAIN approvals'.pending :
                            IsSome(approvals'.pending[o].plan) =>
                                Unwrap(approvals'.pending[o].plan).plan_id # p
      ]_vars

\* A protocol approve took a pending plan step that had steps remaining,
\* and the approved step failed.
C12_Witness ==
    /\ input.taken
    /\ input.via = "event"
    /\ input.decision = "Approve"
    /\ calls # <<>>
    /\ \A i \in 1..Len(calls) : ~(calls[i].op = "execute" /\ calls[i].ok)
    /\ \E p \in DOMAIN plans :
          /\ \A i \in 1..Len(calls) : calls[i].plan = p
          /\ Len(plans[p].results) + 1 < plans[p].total_steps

\* The number of plan summaries (plan_completed or plan_stopped) in a batch.
SummaryCount(batch) ==
    Len(SelectSeq(batch, LAMBDA r : r.kind \in { "plan_completed", "plan_stopped" }))

\* The last input ran steps of a plan: it was a plan request, or an approval
\* of a pending plan step.
PlanRun ==
    \/ input.route = "plan"
    \/ /\ input.taken
       /\ input.decision \in { "Approve", "ApproveAll" }
       /\ \E i \in 1..Len(calls) : calls[i].plan # ""

\* C13: the batch of an input that ran steps of a plan either pauses for
\* approval (it has an approval_request) and has no summary, or ends the
\* plan and has exactly one summary, of kind plan_completed or plan_stopped.
C13_OneSummaryWhenPlanEnds ==
    PlanRun =>
        IF HasKind(replies, "approval_request")
        THEN SummaryCount(replies) = 0
        ELSE SummaryCount(replies) = 1

\* C14: when handler.execute returns an error for a step of a plan, the
\* batch returned for that input contains a reply of kind error and a
\* summary of kind plan_stopped.
C14_ExecuteErrorSurfaced ==
    (\E i \in 1..Len(calls) :
        /\ calls[i].op = "execute"
        /\ ~calls[i].ok
        /\ calls[i].plan # "")
    => /\ HasKind(replies, "error")
       /\ HasKind(replies, "plan_stopped")

\* C15: the batch of an input that ran steps of a plan (a plan request or
\* an approval of a pending plan step) contains no reply of kind
\* action_result.
C15_NoStepResultsInPlanBatch ==
    PlanRun => ~HasKind(replies, "action_result")

\* C16: in every state between inputs, each plan id in the plans map is
\* named by the PlanContext of some PendingAction in the approval store.
C16_NoPlanEntryOutlivesItsPlan ==
    \A p \in DOMAIN plans :
        \E id \in DOMAIN approvals.pending :
            /\ IsSome(approvals.pending[id].plan)
            /\ Unwrap(approvals.pending[id].plan).plan_id = p

\* The routes on which a message reached the planner.
PlannerRoutes == { "chat", "action", "plan", "need_input" }

\* C17: when the message's conversation has a PendingInput with several
\* missing parameters, none of them path-like, and the message is handled
\* by the planner, the PendingInput is still in the pending-input map
\* afterwards.
C17_FailedFillKeepsPendingInput ==
    [][ (/\ IsSome(input'.event)
         /\ input'.route \in PlannerRoutes
         /\ conversation_key_for(Unwrap(input'.event)) \in DOMAIN pending_inputs
         /\ LET pending == pending_inputs[conversation_key_for(Unwrap(input'.event))]
            IN  /\ Len(pending.missing) > 1
                /\ \A i \in 1..Len(pending.missing) : ~is_path_key(pending.missing[i]))
        => conversation_key_for(Unwrap(input'.event)) \in DOMAIN pending_inputs'
      ]_vars

\* The message of the step handled a text that is non-empty and was not
\* taken as an approval command, in a conversation whose PendingInput has
\* exactly one missing parameter.
OneMissingFill ==
    /\ IsSome(input'.event)
    /\ input'.via = "text"
    /\ Unwrap(input'.event).text.word # ""
    /\ input'.route # "approval"
    /\ conversation_key_for(Unwrap(input'.event)) \in DOMAIN pending_inputs
    /\ Len(pending_inputs[conversation_key_for(Unwrap(input'.event))].missing) = 1

\* The step removed the conversation's PendingInput and went to the
\* action-request path, without the planner, with the pending action and
\* the missing parameter set to value.
FilledWith(value) ==
    LET convo_key == conversation_key_for(Unwrap(input'.event))
        pending == pending_inputs[convo_key]
    IN  /\ convo_key \notin DOMAIN pending_inputs'
        /\ input'.route = "fill"
        /\ calls' # <<>>
        /\ calls'[1].op = "preflight"
        /\ calls'[1].name = pending.action
        /\ calls'[1].params = insert_param(pending.params, pending.missing[1], value)

\* C18 as stated: with exactly one missing parameter, the next non-empty
\* message that is no approval command removes the entry and goes to the
\* action-request path with the parameter set to the text, or to the cwd
\* when the text is one of `.`, `current`, `current dir`, the Chinese
\* "current directory" phrase.
C18_Original ==
    [][ OneMissingFill =>
          FilledWith(IF /\ Unwrap(input'.event).text.arg = ""
                        /\ Unwrap(input'.event).text.word \in
                              { ".", "current", "current dir", "zh:dangqianmulu" }
                     THEN Cwd
                     ELSE text_value(Unwrap(input'.event).text))
      ]_vars

\* C18 amended: the same, the cwd being used for each of the six phrases
\* `.`, `current`, `current dir`, `current directory` and the two Chinese
\* phrases for "current directory" and "current folder".
C18_OneMissingFilledWithoutPlanner ==
    [][ OneMissingFill =>
          FilledWith(IF /\ Unwrap(input'.event).text.arg = ""
                        /\ Unwrap(input'.event).text.word \in
                              { ".", "current", "current dir", "current directory",
                                "zh:dangqianmulu", "zh:dangqianwenjianjia" }
                     THEN Cwd
                     ELSE text_value(Unwrap(input'.event).text))
      ]_vars

\* A PendingInput of fs.read_file missing path was filled by the text `.`:
\* the action ran on the cwd and the entry is gone.
C18_Witness ==
    /\ input.route = "fill"
    /\ IsSome(input.event)
    /\ Unwrap(input.event).text.word = "."
    /\ pending_inputs = EmptyMap
    /\ calls # <<>>
    /\ calls[1].name = "fs.read_file"
    /\ calls[1].params = Params("path", Cwd)
    /\ calls[Len(calls)].op = "execute"
    /\ calls[Len(calls)].ok

\* The step handled a protocol Message event.
MessageEventStep ==
    /\ input'.via = "event"
    /\ IsSome(input'.event)
    /\ input'.route \notin { "room_scope", "config_update" }

\* The step left the engine's stores as they were.
EngineStateUnchanged ==
    UNCHANGED << approvals, pending_inputs, plans, next_plan_id, config_store,
                 scope, conversations, seen_messages >>

\* C19: a Message event whose message_id was processed before returns no
\* event, reaches neither the planner nor a handler, and leaves approvals,
\* pending inputs, plans, config, scope and conversation history unchanged.
C19_DuplicateMessageDropped ==
    [][ (/\ MessageEventStep
         /\ Unwrap(input'.event).message_id \in seen_messages)
        => /\ returned_events(replies') = <<>>
           /\ calls' = <<>>
           /\ input'.route \in { "duplicate", "out_of_scope" }
           /\ EngineStateUnchanged
      ]_vars

\* A message that got a reply and left an approval pending was sent again
\* in an allowed room and dropped as a duplicate.
C19_Witness ==
    /\ input.route = "duplicate"
    /\ IsSome(input.event)
    /\ Unwrap(input.event).text.word = "hello"
    /\ Unwrap(input.event).context_only = None
    /\ Unwrap(input.event).message_id \in seen_messages
    /\ replies = <<>>
    /\ approvals.pending # EmptyMap
    /\ conversations.history # EmptyMap

\* C20 as stated: once a RoomScope event was applied, a Message event for
\* a pair outside the allowed set returns no event and changes nothing,
\* and a Message event for a pair in the set returns at least one Response
\* event.
C20_Original ==
    [][ (MessageEventStep /\ scope.enforced)
        => IF << Unwrap(input'.event).workspace_id, Unwrap(input'.event).room_id >>
                 \notin scope.allowed
           THEN /\ returned_events(replies') = <<>>
                /\ EngineStateUnchanged
           ELSE /\ Len(returned_events(replies')) >= 1
                /\ \A i \in 1..Len(replies') :
                       returned_events(replies')[i].body = "Response"
      ]_vars

\* C20 amended: once a RoomScope event was applied, a Message event for a
\* pair outside the allowed set returns no event and changes nothing; a
\* Message event for a pair in the set passes the scope check, and it
\* returns at least one Response event when its message_id was not seen
\* before, it is not context_only and its text is not blank.
C20_ScopeGatesMessages ==
    [][ (MessageEventStep /\ scope.enforced)
        => IF << Unwrap(input'.event).workspace_id, Unwrap(input'.event).room_id >>
                 \notin scope.allowed
           THEN /\ returned_events(replies') = <<>>
                /\ calls' = <<>>
                /\ input'.route = "out_of_scope"
                /\ EngineStateUnchanged
           ELSE /\ input'.route # "out_of_scope"
                /\ (/\ Unwrap(input'.event).message_id \notin seen_messages
                    /\ Unwrap(input'.event).context_only # Some(TRUE)
                    /\ Unwrap(input'.event).text.word # "")
                   => /\ Len(returned_events(replies')) >= 1
                      /\ \A i \in 1..Len(replies') :
                             returned_events(replies')[i].body = "Response"
                      /\ Unwrap(input'.event).message_id \in seen_messages'
      ]_vars

\* With the scope narrowed to (w1, r1), a message for (w1, r2) was
\* discarded after an earlier message for (w1, r1) had been answered.
C20_Witness ==
    /\ scope.enforced
    /\ scope.allowed = { << "w1", "r1" >> }
    /\ input.route = "out_of_scope"
    /\ IsSome(input.event)
    /\ Unwrap(input.event).room_id = "r2"
    /\ replies = <<>>
    /\ << "w1", "r1" >> \in DOMAIN conversations.history
    /\ << "w1", "r2" >> \notin DOMAIN conversations.history

\* The events returned for the last input: the Response events of its
\* replies and the other events it was answered with.
ReturnedBodies ==
    [ i \in 1..Len(replies) |-> returned_events(replies)[i].body ] \o input.returns

\* C21: an event whose schema_version is not robit.v1 returns no event, runs
\* no handler and leaves the approval store, plans, pending inputs, seen
\* message ids, scope, config and conversation history unchanged, whatever
\* its body.
C21_ForeignSchemaDropped ==
    [][ (/\ input'.via = "event"
         /\ IsSome(input'.event)
         /\ Unwrap(input'.event).schema_version # "robit.v1")
        => /\ ReturnedBodies' = <<>>
           /\ calls' = <<>>
           /\ UNCHANGED << approvals, plans, next_plan_id, pending_inputs,
                           seen_messages, scope, config_store, conversations,
                           preflight >>
      ]_vars

\* An ApprovalDecision of a foreign schema version for the pending appr-1
\* was dropped: appr-1 is still pending.
C21_Witness ==
    /\ input.route = "schema_version"
    /\ IsSome(input.event)
    /\ Unwrap(input.event).schema_version = "robit.v0"
    /\ Unwrap(input.event).type = "ApprovalDecision"
    /\ "appr-1" \in DOMAIN approvals.pending
    /\ replies = <<>>

\* The kinds of the replies of a batch, in order.
KindsOf(batch) == [ i \in 1..Len(batch) |-> batch[i].kind ]

\* The text command of a protocol decision string.
CommandWord(decision) ==
    CASE decision = "approve" -> "approve"
      [] decision = "deny"    -> "deny"
      [] OTHER                -> "approve-all"

\* C22: in every state and for every pending approval id, the protocol
\* decisions approve, approve_all, approve-all and deny make the same
\* handler calls, leave the same approval store and plans map and return
\* replies of the same kinds as the text commands approve, approve-all and
\* deny with that id.
C22_ProtocolMatchesText ==
    \A id \in DOMAIN approvals.pending, sender \in Requesters,
       decision \in { "approve", "approve_all", "approve-all", "deny" } :
        \A orc \in OraclesUpTo(2) :
            \A p \in { handle_approval_decision(Start(orc),
                           [ approval_id |-> id, decision |-> decision,
                             sender_id |-> sender ]) },
               t \in { handle_approval(Start(orc), sender,
                           [ word |-> CommandWord(decision), arg |-> id ]) } :
                /\ t.handled
                /\ p.st.calls = t.st.calls
                /\ p.st.approvals = t.st.approvals
                /\ p.st.plans = t.st.plans
                /\ KindsOf(p.replies) = KindsOf(t.replies)

\* C23: in every state, a decision naming an approval id that is not in
\* the store, given as a text command or as a protocol ApprovalDecision
\* event, returns an error reply, makes no handler call and leaves the
\* approval store, the plans and the pending inputs as they are.
C23_UnknownIdIsError ==
    \A id \in ApprovalIds \ DOMAIN approvals.pending, sender \in Senders :
        /\ \A word \in { "approve", "deny", "approve-all" } :
              \A t \in { handle_approval(Start(NoFailure), sender,
                                          [ word |-> word, arg |-> id ]) } :
                  /\ t.handled
                  /\ KindsOf(t.replies) = << "error" >>
                  /\ t.st = Start(NoFailure)
        /\ \A decision \in { "approve", "approve_all", "approve-all", "deny" } :
              \A p \in { handle_approval_decision(Start(NoFailure),
                              [ approval_id |-> id, decision |-> decision,
                                sender_id |-> sender ]) } :
                  /\ KindsOf(p.replies) = << "error" >>
                  /\ p.st = Start(NoFailure)

\* C24: in every state where the sender's latest pending approval belongs
\* to a plan, each of the affirmations yes, y, ok and the five Chinese ones
\* is taken as approve-all: the pending step is executed and the batch
\* holds no further approval_request.
C24_AffirmationApprovesAll ==
    \A sender \in Senders :
        (/\ IsSome(latest_for_sender(approvals, sender))
         /\ IsSome(approvals.pending[Unwrap(latest_for_sender(approvals, sender))].plan))
        => \A word \in { "yes", "y", "ok", "zh:haode", "zh:hao", "zh:keyi",
                          "zh:xing", "zh:en" } :
               \A t \in { handle_approval(Start(NoFailure), sender,
                                           [ word |-> word, arg |-> "" ]) } :
                   /\ t.handled
                   /\ t.taken
                   /\ t.decision = "ApproveAll"
                   /\ Executes(t.st.calls) >= 1
                   /\ ~HasKind(t.replies, "approval_request")

\* The last n entries of a sequence, all of it if it is shorter.
MostRecent(entries, n) ==
    [ i \in 1..(IF Len(entries) < n THEN Len(entries) ELSE n) |->
        entries[i + (IF Len(entries) < n THEN 0 ELSE Len(entries) - n)] ]

\* The history of the conversation key before the step.
HistoryBefore ==
    IF ConversationKey \in DOMAIN conversations.history
    THEN conversations.history[ConversationKey] ELSE <<>>

\* The entries record_exchange is to append for the call kept in input.
ExchangeEntries(args) ==
    << [ role |-> "User", content |-> args.user_input ] >>
    \o [ i \in 1..Len(SelectSeq(args.batch, LAMBDA r : r.text # "")) |->
           [ role |-> "Assistant",
             content |-> SelectSeq(args.batch, LAMBDA r : r.text # "")[i].text ] ]

\* C25: after every step of the store max_messages is at least 2 and no
\* history is longer than max_messages; after record_exchange and
\* record_context the key's history is the most recent max_messages
\* entries of the old history followed by the new entries, in order, and
\* after load_from_path each history is the most recent max_messages
\* messages of the file's conversation.
C25_HistoryBounded ==
    [][ /\ conversations'.max_messages >= 2
        /\ \A key \in DOMAIN conversations'.history :
               Len(conversations'.history[key]) <= conversations'.max_messages
        /\ input'.route = "record_exchange"
             => conversations'.history[ConversationKey] =
                  MostRecent(HistoryBefore \o ExchangeEntries(Unwrap(input'.event)),
                             conversations.max_messages)
        /\ (input'.route = "record_context" /\ Unwrap(input'.event).content # "")
             => conversations'.history[ConversationKey] =
                  MostRecent(Append(HistoryBefore,
                                    [ role |-> Unwrap(input'.event).role,
                                      content |-> Unwrap(input'.event).content ]),
                             conversations.max_messages)
        /\ input'.route = "load"
             => \A i \in 1..Len(Unwrap(input'.event).conversations) :
                  conversations'.history[
                      << Unwrap(input'.event).conversations[i].workspace_id,
                         Unwrap(input'.event).conversations[i].room_id >> ] =
                  MostRecent(Unwrap(input'.event).conversations[i].messages,
                             conversations.max_messages)
      ]_vars

\* A record_exchange on a full history dropped the oldest entries: the
\* history holds max_messages entries and ends with the reply just given.
C25_Witness ==
    /\ input.route = "record_exchange"
    /\ Len(Unwrap(input.event).batch) = 2
    /\ Unwrap(input.event).batch[2].text = "x"
    /\ conversations.max_messages = 2
    /\ conversations.history[ConversationKey] =
          << [ role |-> "Assistant", content |-> "x" ],
             [ role |-> "Assistant", content |-> "x" ] >>

\* C27: save_to_path followed by load_from_path into a store with the same
\* max_messages gives the history map that was saved: the same keys, each
\* with the same sequence of entries.
C27_SaveLoadRoundTrip ==
    [][ input'.route = "save_load"
        => /\ DOMAIN conversations'.history = DOMAIN conversations.history
           /\ \A key \in DOMAIN conversations.history :
                  conversations'.history[key] = conversations.history[key]
           /\ conversations'.max_messages = conversations.max_messages
      ]_vars

\* A store with two conversations, one of them full, went through a save
\* and a load.
C27_Witness ==
    /\ input.route = "save_load"
    /\ Len(Unwrap(input.event).conversations) = 2
    /\ DOMAIN conversations.history = { << "w1", "r1" >>, << "w1", "r2" >> }
    /\ Len(conversations.history[<< "w1", "r2" >>]) = conversations.max_messages
    /\ conversations.history[<< "w1", "r1" >>] # <<>>

\* C26: when an input is answered with replies, the history of some
\* conversation ends, after the step, with a User entry followed by one
\* Assistant entry for each reply, in order.
C26_RepliesRecorded ==
    [][ replies' # <<>>
        => \E key \in DOMAIN conversations'.history :
             \E h \in { conversations'.history[key] } :
               /\ Len(h) >= Len(replies') + 1
               /\ h[Len(h) - Len(replies')].role = "User"
               /\ \A i \in 1..Len(replies') :
                      /\ h[Len(h) - Len(replies') + i].role = "Assistant"
                      /\ h[Len(h) - Len(replies') + i].content = reply_text(replies'[i])
      ]_vars

\* ------------------------------------------------------------------------
\* Approval under the room's risk policy
\* ------------------------------------------------------------------------
\* Action specs of every risk level, with and without requires_approval.
RiskSpecs ==
    [ name : { "fs.read_file" }, risk : { "Low", "Medium", "High" },
      requires_approval : BOOLEAN, capabilities : { << "filesystem" >> } ]

ApprovalExpected(spec, room_cfg) ==
    \/ spec.requires_approval
    \/ /\ IsSome(room_cfg.risk_policy)
       /\ spec.risk \in Range(Unwrap(room_cfg.risk_policy).approval_for)
       /\ ~(Unwrap(room_cfg.risk_policy).low_auto_execute /\ spec.risk = "Low")
    \/ /\ ~IsSome(room_cfg.risk_policy)
       /\ spec.risk \in Range(Policy.approval_risk_levels)

\* C28: for a single action request, needs_approval is true exactly when
\* the spec requires approval, or the room's risk policy lists the risk and
\* does not auto-execute it as Low, or, without a room risk policy, the
\* engine policy lists the risk; a valid, allowed request is answered with
\* an approval request exactly in those cases.
C28_NeedsApprovalExactly ==
    \A room_id \in { "r1", "r2" } :
        LET room_cfg == effective_for(config_store, "w1", room_id)
        IN  /\ \A spec \in RiskSpecs :
                   requires_approval(spec, room_cfg) <=> ApprovalExpected(spec, room_cfg)
            /\ \A request \in { ReadInside, WriteInside } :
                   allows_action(room_cfg, request.name) =>
                       ( handle_action_request(Start(NoFailure), "alice", request,
                                               room_cfg).replies[1].kind
                             = "approval_request"
                         <=> ApprovalExpected(Registry[request.name], room_cfg) )

\* A Low-risk read was answered with an approval request under a room risk
\* policy.
C28_Witness ==
    /\ input.via = "event"
    /\ Len(replies) = 1 /\ replies[1].kind = "approval_request"
    /\ Len(calls) > 0 /\ calls[1].name = "fs.read_file"
    /\ IsSome(effective_for(config_store, "w1", "r1").risk_policy)

\* ------------------------------------------------------------------------
\* The effective config of a room
\* ------------------------------------------------------------------------
\* A field of the most specific level that sets it: the room's, else the
\* workspace's, else the global one.
InheritedField(store, workspace_id, room_id, field) ==
    IF /\ << workspace_id, room_id >> \in DOMAIN store.rooms
       /\ IsSome(store.rooms[<< workspace_id, room_id >>][field])
    THEN store.rooms[<< workspace_id, room_id >>][field]
    ELSE IF /\ workspace_id \in DOMAIN store.workspaces
            /\ IsSome(store.workspaces[workspace_id][field])
         THEN store.workspaces[workspace_id][field]
         ELSE store.global[field]

InheritedConfig(store, workspace_id, room_id) ==
    [ field \in { "risk_policy", "action_allowlist", "action_denylist",
                  "dry_run_default" } |->
          InheritedField(store, workspace_id, room_id, field) ]

\* C29: effective_for is the global config overridden field by field by the
\* workspace's config and then by the room's, absent fields inheriting; and
\* a protocol Message is handled as handle_message_with_config handles it
\* under that config.
C29_EffectiveConfigInherits ==
    /\ \A workspace_id \in { "w1", "w2" }, room_id \in { "r1", "r2" } :
           effective_for(config_store, workspace_id, room_id)
               = InheritedConfig(config_store, workspace_id, room_id)
    /\ \A payload \in ConfigMessages, dec \in ConfigDecisions :
           payload.message_id \notin seen_messages =>
               LET handled == handle_protocol_message(Start(NoFailure), payload, dec)
                   expected ==
                       handle_message_in(
                           [ Start(NoFailure) EXCEPT
                               !.seen_messages = @ \cup { payload.message_id } ],
                           [ text |-> payload.text, sender |-> payload.sender_id,
                             channel |-> payload.room_id,
                             workspace_id |-> Some(payload.workspace_id) ],
                           InheritedConfig(config_store, payload.workspace_id,
                                           payload.room_id),
                           dec)
               IN  handled.replies = expected.replies /\ handled.st = expected.st

\* A message was handled while the workspace and the room both set a risk
\* policy, and different ones.
C29_Witness ==
    /\ input.via = "event" /\ Len(replies) = 1
    /\ "w1" \in DOMAIN config_store.workspaces
    /\ << "w1", "r1" >> \in DOMAIN config_store.rooms
    /\ IsSome(config_store.workspaces["w1"].risk_policy)
    /\ IsSome(config_store.rooms[<< "w1", "r1" >>].risk_policy)
    /\ config_store.workspaces["w1"].risk_policy
           # config_store.rooms[<< "w1", "r1" >>].risk_policy

\* ------------------------------------------------------------------------
\* ConfigUpdate with mode replace
\* ------------------------------------------------------------------------
\* The RoomConfig a ConfigUpdatePayload describes.
PayloadConfig(payload) ==
    [ risk_policy |->
          IF payload.risk_policy = None THEN None
          ELSE Some([ low_auto_execute |->
                          IF Unwrap(payload.risk_policy).low_auto_execute = None
                          THEN TRUE
                          ELSE Unwrap(Unwrap(payload.risk_policy).low_auto_execute),
                      approval_for |->
                          IF Unwrap(payload.risk_policy).approval_for = None
                          THEN << "Medium", "High" >>
                          ELSE Unwrap(Unwrap(payload.risk_policy).approval_for) ]),
      action_allowlist |->
          IF payload.action_allowlist = None THEN None
          ELSE Some({ Unwrap(payload.action_allowlist)[i] :
                        i \in 1..Len(Unwrap(payload.action_allowlist)) }),
      action_denylist |->
          IF payload.action_denylist = None THEN None
          ELSE Some({ Unwrap(payload.action_denylist)[i] :
                        i \in 1..Len(Unwrap(payload.action_denylist)) }),
      dry_run_default |-> payload.dry_run_default ]

\* The store with the config of one level set: the global one when the
\* scope is absent, the workspace's when only workspace_id is given, the
\* room's when both ids are given.
WithLevelSet(store, scope_, cfg) ==
    IF scope_ = None THEN [ store EXCEPT !.global = cfg ]
    ELSE IF Unwrap(scope_).room_id = None
    THEN [ store EXCEPT !.workspaces =
             [ k \in DOMAIN @ \cup { Unwrap(Unwrap(scope_).workspace_id) } |->
                 IF k = Unwrap(Unwrap(scope_).workspace_id) THEN cfg ELSE @[k] ] ]
    ELSE [ store EXCEPT !.rooms =
             [ k \in DOMAIN @ \cup { << Unwrap(Unwrap(scope_).workspace_id),
                                         Unwrap(Unwrap(scope_).room_id) >> } |->
                 IF k = << Unwrap(Unwrap(scope_).workspace_id),
                           Unwrap(Unwrap(scope_).room_id) >> THEN cfg ELSE @[k] ] ]

ReplaceStep ==
    /\ input'.via = "event" /\ input'.route = "config_update"
    /\ Unwrap(input'.event).mode = Some("replace")

\* C30: a ConfigUpdate with mode replace sets the config of the targeted
\* level to exactly the payload's config, whatever was merged there before,
\* and leaves every other level and key as it was.
C30_ReplaceSetsLevel ==
    [][ ReplaceStep =>
          config_store' = WithLevelSet(config_store, Unwrap(input'.event).scope,
                                       PayloadConfig(Unwrap(input'.event))) ]_vars

\* A replace at the room left exactly the payload's denylist there, while
\* the global level and the workspace hold configs of their own.
C30_Witness ==
    /\ input.via = "event" /\ input.route = "config_update"
    /\ Unwrap(input.event).mode = Some("replace")
    /\ Unwrap(input.event).scope
           = Some([ workspace_id |-> Some("w1"), room_id |-> Some("r1") ])
    /\ << "w1", "r1" >> \in DOMAIN config_store.rooms
    /\ config_store.rooms[<< "w1", "r1" >>]
           = [ DefaultRoomConfig EXCEPT !.action_denylist = Some({ "fs.read_file" }) ]
    /\ IsSome(config_store.global.risk_policy)
    /\ "w1" \in DOMAIN config_store.workspaces

\* ------------------------------------------------------------------------
\* Merging configs
\* ------------------------------------------------------------------------
\* The RoomConfigs merged into a level.
MergeConfigs ==
    [ risk_policy : { None,
                      Some([ low_auto_execute |-> FALSE, approval_for |-> << "Low" >> ]),
                      Some([ low_auto_execute |-> TRUE,
                             approval_for |-> << "Low", "High" >> ]) },
      action_allowlist : { None, Some({}), Some({ "fs.read_file" }) },
      action_denylist : { None, Some({ "shell.run" }) },
      dry_run_default : { None, Some(FALSE) } ]

\* The configs the store holds, one per level and key.
LevelConfigs ==
    { config_store.global }
    \cup { config_store.workspaces[k] : k \in DOMAIN config_store.workspaces }
    \cup { config_store.rooms[k] : k \in DOMAIN config_store.rooms }

ListItems(list) == IF list = None THEN {} ELSE Unwrap(list)

LastPresent(first, second) == IF second = None THEN first ELSE second

\* C31: merging is associative, merging b and then c into a config equals
\* merging into it the merge of c into b; a merge unions the allow- and
\* deny-lists and gives risk_policy and dry_run_default their last present
\* value.
C31_MergeAssociative ==
    \A a \in LevelConfigs : \A b \in MergeConfigs :
        /\ \A c \in MergeConfigs :
               merge_config(merge_config(a, b), c) = merge_config(a, merge_config(b, c))
        /\ \E merged \in { merge_config(a, b) } :
               /\ \A f \in { "action_allowlist", "action_denylist" } :
                      /\ ListItems(merged[f]) = ListItems(a[f]) \cup ListItems(b[f])
                      /\ merged[f] = None <=> (a[f] = None /\ b[f] = None)
               /\ \A f \in { "risk_policy", "dry_run_default" } :
                      merged[f] = LastPresent(a[f], b[f])

\* Two allowlists, a risk policy and a dry-run default were merged into the
\* global config, and an allowlist into the room's.
C31_Witness ==
    /\ input.route = "config_update"
    /\ config_store.global.action_allowlist
           = Some({ "fs.read_file", "fs.write_file" })
    /\ IsSome(config_store.global.risk_policy)
    /\ config_store.global.dry_run_default = Some(TRUE)
    /\ << "w1", "r1" >> \in DOMAIN config_store.rooms

\* ------------------------------------------------------------------------
\* Planner errors and the retry
\* ------------------------------------------------------------------------
LlmCalls(log) ==
    SelectSeq(log, LAMBDA c : c.op \in { "plan_with_history", "plan_with_history_retry" })

RuleCalls(log) == SelectSeq(log, LAMBDA c : c.op = "planner.plan")

\* The replies of the rule planner path for the message just handled.
RulePathReplies(orc) ==
    handle_message_in(Start(orc),
                      AdapterMessage("alice", Unwrap(input'.event).text),
                      DefaultRoomConfig, Unwrap(input'.event).ai.rule).replies

\* C32: whenever an LLM planner call made while a message is handled
\* returns an error, the first call or the RETRY call, the rule planner is
\* called and the replies are those of the rule planner path.
C32_PlannerErrorFallsThrough ==
    [][ ( /\ input'.via = "text"
          /\ \E i \in 1..Len(LlmCalls(calls')) : ~LlmCalls(calls')[i].ok )
        => /\ Len(RuleCalls(calls')) = 1
           /\ \E orc \in OraclesUpTo(1) : replies' = RulePathReplies(orc) ]_vars

\* The message just handled reached the LLM planner, which answered
\* Unknown with the format-invalid sentinel.
FormatInvalidStep ==
    /\ input'.via = "text"
    /\ Len(LlmCalls(calls')) > 0
    /\ Unwrap(input'.event).ai.first.ok
    /\ Unwrap(input'.event).ai.first.decision
           = [ type |-> "unknown", message |-> FormatInvalid ]

\* The text names one of the system-status probes.
NamesProbe(text) ==
    \E keyword \in { "system status", "status", "cpu", "load", "memory", "disk",
                      "process", "network" } :
        contains(to_lowercase(text_string(text)), keyword)

HandlerCalls(log) ==
    SelectSeq(log, LAMBDA c : c.op \in { "preflight", "validate", "execute" })

\* C33: after a format-invalid answer the heuristic system-status plan, if
\* one applies, is run with no further planner call; otherwise the planner
\* is called exactly once more, with the RETRY input, a retry answer that
\* is not Unknown is handled as the decision, and any other retry outcome
\* is answered with the unknown message as kind chat.
C33_FormatInvalidRetriedOnce ==
    [][ FormatInvalidStep =>
          LET event == Unwrap(input'.event)
              llm == LlmCalls(calls')
          IN  /\ Len(RuleCalls(calls')) = 0
              /\ IF NamesProbe(event.text)
                 THEN /\ Len(llm) = 1
                      /\ input'.route = "plan"
                      /\ \A j \in 1..Len(HandlerCalls(calls')) :
                             HandlerCalls(calls')[j].name = "shell.run"
                 ELSE /\ Len(llm) = 2
                      /\ llm[1].op = "plan_with_history"
                      /\ llm[2].op = "plan_with_history_retry"
                      /\ IF event.ai.retry.ok
                            /\ event.ai.retry.decision.type # "unknown"
                         THEN \E orc \in OraclesUpTo(1) :
                                replies' =
                                  handle_message_in(Start(orc),
                                      AdapterMessage("alice", event.text),
                                      DefaultRoomConfig,
                                      event.ai.retry.decision).replies
                         ELSE replies' = << reply_saying("chat", FormatInvalid) >> ]_vars

\* A retry answered with an action, which was executed.
C33_Witness ==
    /\ input.via = "text" /\ input.route = "action"
    /\ Len(LlmCalls(calls)) = 2 /\ LlmCalls(calls)[2].ok
    /\ Len(replies) = 1 /\ replies[1].kind = "action_result"

\* The last call the loop made on its adapter.
LastCall == adapter.log[Len(adapter.log)]

\* The adapter call ended the loop with Ok: recv returned None.
EndsOk(call) == call.op = "recv" /\ call.result.kind = "None"

\* The adapter call ended the loop with its error: recv failed.
RecvFailed(call) == call.op = "recv" /\ call.result.kind = "Err"

\* The adapter call ended the loop with its error: send failed.
SendFailed(call) == call.op = "send" /\ ~call.ok

\* C34 (as amended): run_with_adapter ends in three ways only: recv returns
\* None and the loop returns Ok, recv fails and its error is returned, or a
\* send fails and its error is returned at once, with no retry and with the
\* remaining replies of the batch unsent.  Every other adapter call, whatever
\* the message, the reply kinds or the handler failures, leaves the loop
\* running, so an ending call is always the last call of the log.
C34_LoopEndsThreeWays ==
    /\ adapter.log = <<>> => adapter.pc # "returned"
    /\ adapter.log # <<>> =>
          /\ adapter.pc = "returned" <=>
                EndsOk(LastCall) \/ RecvFailed(LastCall) \/ SendFailed(LastCall)
          /\ adapter.result = "Ok" <=> EndsOk(LastCall)
          /\ adapter.result = "Err" <=> RecvFailed(LastCall) \/ SendFailed(LastCall)
          /\ \A i \in 1..(Len(adapter.log) - 1) :
                ~ ( EndsOk(adapter.log[i]) \/ RecvFailed(adapter.log[i])
                    \/ SendFailed(adapter.log[i]) )
          /\ SendFailed(LastCall) =>
                /\ adapter.outbox # <<>>
                /\ adapter.outbox[1] = LastCall.result

\* C34 witness: a send failed with further replies of the batch waiting; the
\* loop returned the error and the replies stay unsent.
C34_Witness ==
    /\ adapter.log # <<>>
    /\ adapter.pc = "returned"
    /\ adapter.result = "Err"
    /\ SendFailed(LastCall)
    /\ Len(adapter.outbox) >= 2

\* C34 as stated: the loop ends in two ways only, recv returning None or a
\* send failing.
C34_LoopEndsTwoWays ==
    (adapter.log # <<>> /\ adapter.pc = "returned") =>
        EndsOk(LastCall) \/ SendFailed(LastCall)

\* A recv call that returned a message.
GotMessage(call) == call.op = "recv" /\ call.result.kind = "Some"

\* The adapter calls after the i-th, a recv that returned a message, are the
\* sends of its replies in the order of the batch, each made only after the
\* one before succeeded, and then the recv of the next message.
SendsFollow(log, i) ==
    LET batch == log[i].batch
    IN  /\ trim(log[i].result.text.word) = "" => batch = <<>>
        /\ \A j \in 1..Len(batch) :
              i + j <= Len(log) =>
                  /\ log[i + j].op = "send"
                  /\ log[i + j].k = log[i].k
                  /\ log[i + j].result = batch[j]
                  /\ j > 1 => log[i + j - 1].ok
        /\ i + Len(batch) < Len(log) =>
              /\ log[i + Len(batch) + 1].op = "recv"
              /\ log[i + Len(batch) + 1].k = log[i].k + 1
              /\ batch # <<>> => log[i + Len(batch)].ok

\* The log of a loop that handles its messages one at a time, in order.
InOrder(log) ==
    /\ log # <<>> => log[1].op = "recv" /\ log[1].k = 1
    /\ \A i \in 1..Len(log) : GotMessage(log[i]) => SendsFollow(log, i)

\* The step is the loop's recv of a message.
RecvStep ==
    /\ Len(adapter'.log) = Len(adapter.log) + 1
    /\ GotMessage(adapter'.log[Len(adapter'.log)])

\* C36: run_with_adapter handles the messages in the order recv returned them
\* and one at a time: the replies the engine produced for message k are sent
\* in their order before recv is called for message k+1, and a message whose
\* trimmed text is empty produces no send and changes no engine state.
C36_OneMessageAtATime ==
    [][ /\ InOrder(adapter'.log)
        /\ RecvStep =>
              /\ adapter.outbox = <<>>
              /\ adapter'.log[Len(adapter'.log)].batch = replies'
              /\ adapter'.outbox = replies'
              /\ trim(adapter'.log[Len(adapter'.log)].result.text.word) = "" =>
                    /\ adapter'.pc = "recv"
                    /\ adapter'.outbox = <<>>
                    /\ UNCHANGED << approvals, plans, next_plan_id, preflight,
                                    pending_inputs, seen_messages, scope,
                                    config_store, conversations, issued >>
      ]_vars

\* C36 witness: the replies of the first message, more than one, were all
\* sent and recv has been called for the second message, a blank one.
C36_Witness ==
    /\ Len(adapter.log) >= 4
    /\ Len(adapter.log[1].batch) >= 2
    /\ GotMessage(LastCall)
    /\ LastCall.k = 2
    /\ LastCall.result.text.word = "  "
    /\ adapter.pc = "recv"

\* ------------------------------------------------------------------------
\* The work done for one input
\* ------------------------------------------------------------------------
\* The calls of `op` that execute_plan_steps made in its loop.
LoopCalls(log, op) ==
    SelectSeq(log, LAMBDA c : c.op = op /\ c.plan # "" /\ c.appr = "")

\* The calls of `op` made outside the loop of execute_plan_steps.
SingleCalls(log, op) ==
    SelectSeq(log, LAMBDA c : c.op = op /\ (c.plan = "" \/ c.appr # ""))

\* The steps handed to execute_plan_steps by the input just handled: those
\* of the plan decided for a message, or the remaining steps of the plan
\* whose pending step was approved.
StepsHanded ==
    IF input'.route = "plan"
    THEN LET ai == Unwrap(input'.event).ai
         IN  IF ai.first.decision.type = "plan" THEN ai.first.decision.steps
             ELSE Unwrap(heuristic_plan_for(text_string(Unwrap(input'.event).text)))
    ELSE IF input'.taken /\ input'.decision # "Deny"
            /\ IsSome(approvals.pending[input'.id].plan)
    THEN Unwrap(approvals.pending[input'.id].plan).remaining
    ELSE <<>>

\* The calls are made for the steps in their order, each step at most once.
OnePass(made, steps) ==
    /\ Len(made) <= Len(steps)
    /\ \A i \in 1..Len(made) : RequestOf(made[i]) = StepRequest(steps[i])

PayloadPairs(payload) ==
    UNION { { << payload.workspaces[i].workspace_id, room >> :
                room \in Range(payload.workspaces[i].rooms) } :
            i \in 1..Len(payload.workspaces) }

\* C37: a RoomScope event with mode replace, or with no mode, makes the
\* allowed set exactly the pairs of its payload, and with mode merge the
\* union of the previous set and those pairs; either way the scope is
\* enforced afterwards and no later event ends the enforcement, so while
\* the set is empty, as after a replace with no pair, every Message event
\* is discarded: it returns no event, calls nothing and changes nothing.
C37_ScopeReplacedOrMerged ==
    [][ /\ scope.enforced => scope'.enforced
        /\ input'.route = "room_scope" =>
              /\ scope'.enforced
              /\ \E payload \in ScopePayloads :
                    /\ input'.event = Some(payload)
                    /\ scope'.allowed =
                          IF payload.mode = Some("merge")
                          THEN scope.allowed \cup PayloadPairs(payload)
                          ELSE PayloadPairs(payload)
        /\ (MessageEventStep /\ scope.enforced /\ scope.allowed = {}) =>
              /\ returned_events(replies') = <<>>
              /\ calls' = <<>>
              /\ input'.route = "out_of_scope"
              /\ EngineStateUnchanged
      ]_vars

\* C37 witness: after the scope allowed two rooms, a replace with no pair
\* emptied the set, and a Message for a room allowed before was discarded.
C37_Witness ==
    /\ scope.enforced
    /\ scope.allowed = {}
    /\ input.route = "out_of_scope"
    /\ IsSome(input.event)
    /\ Unwrap(input.event).room_id = "r1"
    /\ replies = <<>>
    /\ << "w1", "r1" >> \in DOMAIN conversations.history

\* ------------------------------------------------------------------------
\* Context-only messages
\* ------------------------------------------------------------------------
\* The Message event just handled is marked context_only and passed the
\* scope check and the deduplication.
ContextOnlyStep ==
    /\ MessageEventStep
    /\ Unwrap(input'.event).context_only = Some(TRUE)
    /\ allows(scope, Unwrap(input'.event).workspace_id, Unwrap(input'.event).room_id)
    /\ Unwrap(input'.event).message_id \notin seen_messages

\* The step returned no event, called no handler, left approvals, pending
\* inputs and plans as they were, and appended the trimmed text, unless it
\* is empty, to the history of the room with the given role.
ContextRecorded(role) ==
    LET payload == Unwrap(input'.event)
        key == << payload.workspace_id, payload.room_id >>
        text == trim(text_string(payload.text))
        old == IF key \in DOMAIN conversations.history
               THEN conversations.history[key] ELSE <<>>
    IN  /\ returned_events(replies') = <<>>
        /\ calls' = <<>>
        /\ input'.route = "context_only"
        /\ UNCHANGED << approvals, pending_inputs, plans, next_plan_id >>
        /\ IF text = ""
           THEN conversations' = conversations
           ELSE /\ Len(old) < conversations.max_messages
                /\ conversations'.history =
                      MapInsert(conversations.history, key,
                                Append(old, [ role |-> role, content |-> text ]))

\* C38 as stated: the role recorded is Assistant if metadata.role is
\* `assistant` and User otherwise.
C38_Original ==
    [][ ContextOnlyStep =>
          ContextRecorded(IF Unwrap(input'.event).role = Some("assistant")
                          THEN "Assistant" ELSE "User") ]_vars

\* C38 (as amended): a Message event marked context_only that passes the
\* scope check and the deduplication appends its trimmed text, when it is
\* not empty, to the conversation history, with role Assistant if
\* metadata.role is `assistant` in any letter case and User otherwise; it
\* returns no event, reaches no planner and no handler, and leaves
\* approvals, pending inputs and plans unchanged.
C38_ContextOnlyRecorded ==
    [][ ContextOnlyStep =>
          ContextRecorded(IF Unwrap(input'.event).role
                                \in { Some("assistant"), Some("Assistant") }
                          THEN "Assistant" ELSE "User") ]_vars

\* C38 witness: with an approval pending, a context_only message of role
\* Assistant whose text needed trimming was recorded after an earlier
\* exchange of the room.
C38_Witness ==
    /\ input.route = "context_only"
    /\ IsSome(input.event)
    /\ Unwrap(input.event).text.word = " hello "
    /\ Unwrap(input.event).role = Some("Assistant")
    /\ approvals.pending # EmptyMap
    /\ << "w1", "r1" >> \in DOMAIN conversations.history
    /\ Len(conversations.history[<< "w1", "r1" >>]) >= 3
    /\ Last(conversations.history[<< "w1", "r1" >>])
          = [ role |-> "Assistant", content |-> "hello" ]

\* ------------------------------------------------------------------------
\* The sender's latest approval
\* ------------------------------------------------------------------------
\* The ids of the sender's pending actions.
PendingOf(store, sender) ==
    { id \in DOMAIN store.pending : store.pending[id].sender = sender }

\* C39: whenever a sender has at least one PendingAction in the approval
\* store, latest_for_sender(sender) returns the id of one of that sender's
\* pending actions, also after another approval of the sender was taken by
\* its id.
C39_LatestWhilePending ==
    \A sender \in Senders :
        PendingOf(approvals, sender) # {} =>
            /\ IsSome(latest_for_sender(approvals, sender))
            /\ Unwrap(latest_for_sender(approvals, sender))
                  \in PendingOf(approvals, sender)

\* ------------------------------------------------------------------------
\* The summary of a plan
\* ------------------------------------------------------------------------
\* C40: a plan summary of kind plan_completed is emitted only when every
\* one of the plan's total_steps steps was executed successfully: the plan
\* it names has as many successful executions as it has steps.
C40_CompletedMeansAllStepsRan ==
    \A i \in 1..Len(replies) :
        replies[i].kind = "plan_completed" =>
            /\ replies[i].plan_id \in DOMAIN planSteps
            /\ Len(planRan[replies[i].plan_id]) = Len(planSteps[replies[i].plan_id])

====
